---- MODULE Spec2Model ----
(***************************************************************************)
(* Model of kicad-jlc-manager: the symbol-library text handling            *)
(* (component.py), the manifest (config.py), the library tables            *)
(* (library.py), the project directory (project.py) and the commands add,  *)
(* remove and sync (cli.py), all under src/src/kicad_jlc_manager.          *)
(*                                                                         *)
(* A document is a sequence of lexemes.  Structural lexemes are kept whole *)
(* ("(symbol", "(property", "(", ")", the double quote, blank, newline);   *)
(* the content of quoted strings is kept character by character, except    *)
(* for a few words that no regular expression of the code can match in     *)
(* part (property names, catalogue keywords, the RoHS markers).            *)
(***************************************************************************)
EXTENDS Integers, Sequences, FiniteSets, TLC

----------------------------------------------------------------------------
(* Lexemes *)

Q     == "\""
NL    == "\n"
SP    == " "
LSym  == "(symbol"
LProp == "(property"
LPar  == "("
RPar  == ")"
\* characters outside ASCII, written by name
Ohm       == "<ohm>"
Micro     == "<micro>"
Surrogate == "<ud800>"
\* a backslash followed by a letter that is no escape of a replacement template
BadEsc    == "\\q"

Digits == {"0", "1", "2", "3", "4", "5", "6", "7", "8", "9"}
Upper  == {"A", "B", "C", "D", "E", "F", "G", "H", "I", "J", "K", "L", "M",
           "N", "O", "P", "Q", "R", "S", "T", "U", "V", "W", "X", "Y", "Z"}
Lower  == {"a", "b", "c", "d", "e", "f", "g", "h", "i", "j", "k", "l", "m",
           "n", "o", "p", "q", "r", "s", "t", "u", "v", "w", "x", "y", "z"}

\* \s
IsWs(t) == t \in {SP, NL}
\* [\t ]
IsBlank(t) == t = SP
\* the lexeme contains an opening parenthesis
HasOpen(t) == t \in {LSym, LProp, LPar}

\* len() of one lexeme, in characters
CharLen(t) == IF t \in {Ohm, Micro, Surrogate} THEN 1 ELSE Len(t)

RECURSIVE CharLenSum(_)
CharLenSum(s) == IF s = <<>> THEN 0 ELSE CharLen(Head(s)) + CharLenSum(Tail(s))

Front(s) == SubSeq(s, 1, Len(s) - 1)
Last(s)  == s[Len(s)]
Occurs(t, s) == \E i \in 1..Len(s) : s[i] = t

----------------------------------------------------------------------------
(* Regular-expression primitives, as Python's re evaluates them *)

Least(S) == CHOOSE x \in S : \A y \in S : x <= y

\* the first position in i..Len(s) that satisfies P, Len(s)+1 when none does:
\* where a greedy repetition of "not P" ends, and where a leftmost search hits
FirstPos(s, i, P(_)) ==
    LET S == {j \in i..Len(s) : P(j)}
    IN  IF S = {} THEN (IF i > Len(s) THEN i ELSE Len(s) + 1) ELSE Least(S)

\* \s* from position i: the first position that holds no white space
RECURSIVE SkipWs(_, _)
SkipWs(s, i) == IF i <= Len(s) /\ IsWs(s[i]) THEN SkipWs(s, i + 1) ELSE i

\* [\t ]* from position i
RECURSIVE SkipBlank(_, _)
SkipBlank(s, i) == IF i <= Len(s) /\ IsBlank(s[i]) THEN SkipBlank(s, i + 1) ELSE i

\* [^"]* from position i: the first position that holds a quote, or Len+1
SkipNonQ(s, i) == FirstPos(s, i, LAMBDA j : s[j] = Q)

NoMatch == [ok |-> FALSE, from |-> 1, to |-> 0, end |-> 0]

\* "([^"]+)" or "([^"]*)" at position i; from..to is group content, end the closing quote
QuotedAt(s, i, allowEmpty) ==
    IF i <= Len(s) /\ s[i] = Q
    THEN LET j == SkipNonQ(s, i + 1)
         IN  IF j <= Len(s) /\ (allowEmpty \/ j > i + 1)
             THEN [ok |-> TRUE, from |-> i + 1, to |-> j - 1, end |-> j]
             ELSE NoMatch
    ELSE NoMatch

\* \s+ followed by a quoted string, the white space starting at position i
WsQuotedAt(s, i, allowEmpty) ==
    IF i <= Len(s) /\ IsWs(s[i])
    THEN QuotedAt(s, SkipWs(s, i), allowEmpty)
    ELSE NoMatch

\* \(symbol\s+"([^"]+)" at position i
SymbolAt(s, i) ==
    IF i <= Len(s) /\ s[i] = LSym THEN WsQuotedAt(s, i + 1, FALSE) ELSE NoMatch

\* the lookahead [\t ]*\(symbol\s+"[^"]+" at position p
LookaheadAt(s, p) == SymbolAt(s, SkipBlank(s, p)).ok

\* re.split(r'(?=[\t ]*\(symbol\s+"[^"]+")', content): a cut before every
\* position where the lookahead matches; element 1 is the header
ReSplit(content) ==
    LET cuts   == {p \in 1..Len(content) :
                      content[p] \in {SP, LSym} /\ LookaheadAt(content, p)}
        Cut(k) == IF k > Cardinality(cuts) THEN Len(content) + 1
                  ELSE CHOOSE p \in cuts : Cardinality({q \in cuts : q < p}) = k - 1
    IN  [k \in 1..(Cardinality(cuts) + 1) |->
            SubSeq(content, IF k = 1 THEN 1 ELSE Cut(k - 1), Cut(k) - 1)]

\* ''.join(blocks)
RECURSIVE Join(_)
Join(blocks) == IF blocks = <<>> THEN <<>> ELSE Head(blocks) \o Join(Tail(blocks))

\* re.search(r'[\t ]*\(symbol\s+"([^"]+)"', block): first match
SymbolSearch(block) == SymbolAt(block, FirstPos(block, 1, LAMBDA i : SymbolAt(block, i).ok))

\* \(property\s+"<pname>"\s+"([^"]+)" (or [^"]*) at position i
PropertyAt(s, i, pname, allowEmpty) ==
    IF i <= Len(s) /\ s[i] = LProp
    THEN LET n == WsQuotedAt(s, i + 1, FALSE)
         IN  IF n.ok /\ SubSeq(s, n.from, n.to) = <<pname>>
             THEN WsQuotedAt(s, n.end + 1, allowEmpty)
             ELSE NoMatch
    ELSE NoMatch

\* re.search of a property pattern in a block: first match
PropertySearch(block, pname, allowEmpty) ==
    PropertyAt(block, FirstPos(block, 1, LAMBDA i : PropertyAt(block, i, pname, allowEmpty).ok),
               pname, allowEmpty)

Group(s, m) == SubSeq(s, m.from, m.to)

\* re.sub(pattern, rf'\1"{new}"', block, count=1) for a match m of the pattern
SubstituteValue(block, m, new) ==
    SubSeq(block, 1, m.from - 1) \o new \o SubSeq(block, m.to + 1, Len(block))

----------------------------------------------------------------------------
(* Sub-symbol names *)

RECURSIVE TrailingDigits(_)
TrailingDigits(s) ==
    IF s # <<>> /\ Last(s) \in Digits THEN 1 + TrailingDigits(Front(s)) ELSE 0

\* re.match(r'.*_\d+_\d+$', name): '.' matches no newline, '$' matches at the
\* end and before a final newline
MatchesSubSuffix(name) ==
    LET core == IF name # <<>> /\ Last(name) = NL THEN Front(name) ELSE name
        d2   == TrailingDigits(core)
        r1   == SubSeq(core, 1, Len(core) - d2)
        r1b  == IF r1 = <<>> THEN <<>> ELSE Front(r1)
        d1   == TrailingDigits(r1b)
        r2   == SubSeq(r1b, 1, Len(r1b) - d1)
    IN  /\ d2 >= 1 /\ r1 # <<>> /\ Last(r1) = "_"
        /\ d1 >= 1 /\ r2 # <<>> /\ Last(r2) = "_"
        /\ ~Occurs(NL, Front(r2))

\* '_' in symbol_name and re.match(r'.*_\d+_\d+$', symbol_name)
IsSubSymbol(symbol_name) == Occurs("_", symbol_name) /\ MatchesSubSuffix(symbol_name)

----------------------------------------------------------------------------
(* api_details: the record of supplier metadata.  kind "none" is None,     *)
(* "empty" is {}, "dict" a non-empty mapping; a missing key reads as "".   *)
(* introIsNone: the key productIntroEn is present with the value None.     *)

NoText == <<>>

Details(intro, model, brand, cat, parent) ==
    [kind |-> "dict", introIsNone |-> FALSE, productIntroEn |-> intro,
     productModel |-> model, brandNameEn |-> brand,
     catalogName |-> cat, parentCatalogName |-> parent]

DetailsNone  == [Details(NoText, NoText, NoText, NoText, NoText) EXCEPT !.kind = "none"]
DetailsEmpty == [Details(NoText, NoText, NoText, NoText, NoText) EXCEPT !.kind = "empty"]

\* not api_details
Falsy(api_details) == api_details.kind \in {"none", "empty"}

\* str.lower() of one lexeme
LowerTok(t) ==
    CASE t = "Resistor"  -> "resistor"
      [] t = "Capacitor" -> "capacitor"
      [] t = "Inductor"  -> "inductor"
      [] t = "LED"       -> "led"
      [] t = "MOSFET"    -> "mosfet"
      [] OTHER           -> t

LowerText(s) == [i \in 1..Len(s) |-> LowerTok(s[i])]

\* keyword in word: the word lexemes that hold a keyword as a substring
WordHolds(word, keyword) ==
    \/ word = keyword
    \/ <<word, keyword>> \in { <<"resistors", "resistor">>, <<"capacitors", "capacitor">>,
                               <<"inductors", "inductor">>, <<"mosfet", "fet">>,
                               <<"controlled", "led">> }

\* keyword in text
KeywordIn(keyword, text) == \E i \in 1..Len(text) : WordHolds(text[i], keyword)

\* a table that asks for capacitor before resistor
passive_categories_Reordered ==
    << <<"capacitor", "capacitor">>, <<"resistor", "resistor">>,
       <<"inductor", "inductor">>, <<"coil", "inductor">>, <<"choke", "inductor">> >>

passive_categories ==
    << <<"resistor", "resistor">>, <<"capacitor", "capacitor">>,
       <<"inductor", "inductor">>, <<"coil", "inductor">>, <<"choke", "inductor">> >>

active_keywords ==
    << "transistor", "mosfet", "bjt", "fet", "thyristor",
       "logic", "interface", "power management", "voltage regulator",
       "microcontroller", "processor", "memory", "analog",
       "sensor", "amplifier", "switching controller", "driver",
       "diode", "led" >>

determine_component_type(api_details) ==
    IF Falsy(api_details) THEN "unknown"
    ELSE
    LET description     == LowerText(api_details.productIntroEn)
        parent_category == LowerText(api_details.parentCatalogName)
        category        == LowerText(api_details.catalogName)
        Hit(keyword)    == \/ KeywordIn(keyword, parent_category)
                           \/ KeywordIn(keyword, category)
                           \/ KeywordIn(keyword, description)
        passive == {i \in 1..Len(passive_categories) : Hit(passive_categories[i][1])}
    IN  IF passive # {}
        THEN passive_categories[CHOOSE i \in passive : \A j \in passive : i <= j][2]
        ELSE IF \E i \in 1..Len(active_keywords) : Hit(active_keywords[i])
             THEN "active"
             ELSE "unknown"

----------------------------------------------------------------------------
(* extract_component_value *)

RECURSIVE SkipDigits(_, _)
SkipDigits(s, i) == IF i <= Len(s) /\ s[i] \in Digits THEN SkipDigits(s, i + 1) ELSE i

\* \d+(?:\.\d+)?(?:<mults>)?<unit> at position i: the position after the match, 0 if none
QuantityAt(s, i, mults, unit) ==
    LET a == SkipDigits(s, i)
        b == IF a <= Len(s) /\ s[a] = "." /\ SkipDigits(s, a + 1) > a + 1
             THEN SkipDigits(s, a + 1) ELSE a
        c == IF b <= Len(s) /\ s[b] \in mults THEN b + 1 ELSE b
    IN  IF a > i /\ c <= Len(s) /\ s[c] = unit THEN c + 1 ELSE 0

RECURSIVE QuantitySearchFrom(_, _, _, _)
QuantitySearchFrom(s, i, mults, unit) ==
    IF i > Len(s) THEN <<>>
    ELSE IF QuantityAt(s, i, mults, unit) # 0
         THEN SubSeq(s, i, QuantityAt(s, i, mults, unit) - 1)
         ELSE QuantitySearchFrom(s, i + 1, mults, unit)

\* re.search(pattern, description).group(1), <<>> when there is no match
QuantitySearch(description, mults, unit) == QuantitySearchFrom(description, 1, mults, unit)

\* a rendering that leaves the multiplier as written
ReplaceU_Keeps(s) == s

\* str.replace('u', micro sign)
ReplaceU(s) == [i \in 1..Len(s) |-> IF s[i] = "u" THEN Micro ELSE s[i]]

\* the end position '$' refers to: the end, or before a final newline
DollarEnd(s) == IF s # <<>> /\ Last(s) = NL THEN Len(s) - 1 ELSE Len(s)

\* re.sub(r'[,_-][A-Z0-9]{1,4}$', '', s)
RECURSIVE StripSuffixFrom(_, _)
StripSuffixFrom(s, i) ==
    LET e == DollarEnd(s)
    IN  IF i > e THEN s
        ELSE IF /\ s[i] \in {",", "_", "-"}
                /\ e - i \in 1..4
                /\ \A j \in (i + 1)..e : s[j] \in Upper \cup Digits
             THEN SubSeq(s, 1, i - 1) \o SubSeq(s, e + 1, Len(s))
             ELSE StripSuffixFrom(s, i + 1)

StripSuffix(s) == StripSuffixFrom(s, 1)

\* re.sub(r'[_-]?C\d+$', '', s)
RECURSIVE StripIdFrom(_, _)
StripIdFrom(s, i) ==
    LET e == DollarEnd(s)
        c == IF i <= e /\ s[i] \in {"_", "-"} THEN i + 1 ELSE i
        AtC(k) == k < e /\ s[k] = "C" /\ \A j \in (k + 1)..e : s[j] \in Digits
    IN  IF i > e THEN s
        ELSE IF AtC(c) \/ AtC(i)
             THEN SubSeq(s, 1, i - 1) \o SubSeq(s, e + 1, Len(s))
             ELSE StripIdFrom(s, i + 1)

StripId(s) == StripIdFrom(s, 1)

\* the result None
NoValue == [some |-> FALSE, val |-> <<>>]
SomeValue(v) == [some |-> TRUE, val |-> v]

extract_component_value(api_details, comp_type) ==
    LET description == api_details.productIntroEn
        model       == api_details.productModel
        fallback    == IF model # <<>> THEN SomeValue(model) ELSE NoValue
        Extract(res, cap, ind) ==
            CASE comp_type = "resistor"  /\ res # <<>> -> SomeValue(res)
              [] comp_type = "capacitor" /\ cap # <<>> -> SomeValue(ReplaceU(cap))
              [] comp_type = "inductor"  /\ ind # <<>> -> SomeValue(ReplaceU(ind))
              [] comp_type = "active"    /\ model # <<>> ->
                     SomeValue(StripId(StripSuffix(model)))
              [] OTHER -> fallback
    IN  Extract(QuantitySearch(description, {"k", "M", "G"}, Ohm),
                QuantitySearch(description, {"p", "n", "u", "m"}, "F"),
                QuantitySearch(description, {"n", "u", "m"}, "H"))

----------------------------------------------------------------------------
(* update_symbol_in_file: the rewrite of one block *)

\* str.strip()
RECURSIVE Strip(_)
Strip(s) ==
    IF s = <<>> THEN s
    ELSE IF IsWs(Head(s)) THEN Strip(Tail(s))
    ELSE IF IsWs(Last(s)) THEN Strip(Front(s))
    ELSE s

\* str.replace(" " + word, "")
RECURSIVE RemoveMarker(_, _)
RemoveMarker(s, word) ==
    IF Len(s) < 2 THEN s
    ELSE IF s[1] = SP /\ s[2] = word THEN RemoveMarker(SubSeq(s, 3, Len(s)), word)
    ELSE <<Head(s)>> \o RemoveMarker(Tail(s), word)

\* description.strip().replace(" RoHS", "").replace(" ROHS", "")
CleanDescription(description) == RemoveMarker(RemoveMarker(Strip(description), "RoHS"), "ROHS")

\* len(current_value) > 6 and re.match(r'^[A-Z0-9_,-]+$', current_value, re.IGNORECASE)
LooksLikePartNumber(current_value) ==
    /\ CharLenSum(current_value) > 6
    /\ DollarEnd(current_value) >= 1
    /\ \A i \in 1..DollarEnd(current_value) :
          current_value[i] \in Upper \cup Lower \cup Digits \cup {"_", ",", "-"}

\* [^\(]* from position i: the first position whose lexeme holds "(", or Len+1
SkipNonOpen(s, i) == FirstPos(s, i, LAMBDA j : HasOpen(s[j]))

\* [^\)]* from position i: the first position that holds ")", or Len+1
SkipNonClose(s, i) == FirstPos(s, i, LAMBDA j : s[j] = RPar)

\* The rest of the Datasheet pattern, [^\(]*(?:\([^\)]*\)[^\(]*)*\), matched
\* greedily with backtracking.  DsRest: the engine stands after a [^\(]* that
\* may end anywhere in lo..hi and tries the longest first.  DsLoop: at position
\* j, first one more iteration of the group, then the final \).  The result
\* is the position of the final ")", 0 when the match fails.
RECURSIVE DsRest(_, _, _), DsLoop(_, _)
DsRest(s, lo, hi) ==
    IF hi < lo THEN 0
    ELSE LET r == DsLoop(s, hi)
         IN  IF r # 0 THEN r ELSE DsRest(s, lo, hi - 1)

DsLoop(s, j) ==
    LET c    == SkipNonClose(s, j + 1)
        iter == IF j <= Len(s) /\ HasOpen(s[j]) /\ c <= Len(s)
                THEN DsRest(s, c + 1, SkipNonOpen(s, c + 1))
                ELSE 0
    IN  IF iter # 0 THEN iter
        ELSE IF j <= Len(s) /\ s[j] = RPar THEN j ELSE 0

\* \(property\s+"Datasheet" at position i, then the rest of the pattern
DatasheetAt(s, i) ==
    IF i <= Len(s) /\ s[i] = LProp
    THEN LET n == WsQuotedAt(s, i + 1, FALSE)
         IN  IF n.ok /\ SubSeq(s, n.from, n.to) = <<"Datasheet">>
             THEN DsRest(s, n.end + 1, SkipNonOpen(s, n.end + 1))
             ELSE 0
    ELSE 0

\* re.search(datasheet_pattern, new_block, re.DOTALL).end(), 0 when no match
DatasheetSearch(block) ==
    DatasheetAt(block, FirstPos(block, 1, LAMBDA i : DatasheetAt(block, i) # 0))

\* the inserted property text
desc_property(description) ==
    <<NL, SP, SP, SP, SP, LProp, SP, Q, "Description", Q, SP, Q>> \o description \o
    <<Q, SP, LPar, "id 6", RPar, SP, LPar, "at 0 0 0", RPar, NL,
      SP, SP, SP, SP, SP, SP, LPar, "effects", SP, LPar, "font", SP,
      LPar, "size 1.27 1.27", RPar, RPar, SP, "hide", RPar, NL,
      SP, SP, SP, SP, RPar>>

\* a replacement template that re.sub rejects (re.error: bad escape)
BadTemplate(text) == Occurs(BadEsc, text)

\* ' '.join(keywords)
KeywordString(jlc_id, api_details) ==
    jlc_id
    \o (IF api_details.brandNameEn # <<>> THEN <<SP>> \o api_details.brandNameEn ELSE <<>>)
    \o (IF api_details.productModel # <<>> THEN <<SP>> \o api_details.productModel ELSE <<>>)

Step(text, updated, exc) == [text |-> text, updated |-> updated, exc |-> exc]

\* lines 296-310: the Value rewrite
ValueStep(block, api_details) ==
    IF api_details.introIsNone THEN Step(block, FALSE, "AttributeError")
    ELSE
    LET Rewrite(extracted_value, value_match) ==
            IF /\ extracted_value.some /\ extracted_value.val # <<>>
               /\ value_match.ok
               /\ LooksLikePartNumber(Group(block, value_match))
            THEN IF BadTemplate(extracted_value.val)
                 THEN Step(block, FALSE, "re.error")
                 ELSE Step(SubstituteValue(block, value_match, extracted_value.val),
                           TRUE, "none")
            ELSE Step(block, FALSE, "none")
    IN  Rewrite(extract_component_value(api_details, determine_component_type(api_details)),
                PropertySearch(block, "Value", FALSE))

\* lines 312-337: the Description rewrite
DescriptionStep(block, api_details) ==
    LET Rewrite(description, desc_match, insert_pos) ==
            IF desc_match.ok
            THEN IF BadTemplate(description)
                 THEN Step(block, FALSE, "re.error")
                 ELSE Step(SubstituteValue(block, desc_match, description), TRUE, "none")
            ELSE IF insert_pos # 0
                 THEN Step(SubSeq(block, 1, insert_pos) \o desc_property(description)
                             \o SubSeq(block, insert_pos + 1, Len(block)), TRUE, "none")
            ELSE Step(block, FALSE, "none")
    IN  IF api_details.productIntroEn = <<>> THEN Step(block, FALSE, "none")
        ELSE Rewrite(CleanDescription(api_details.productIntroEn),
                     PropertySearch(block, "Description", TRUE),
                     DatasheetSearch(block))

\* a keyword rewrite that does not look at the current value
KeywordStep_Overwrites(block, jlc_id, api_details) ==
    LET Rewrite(keyword_string, keywords_match) ==
            IF /\ (api_details.brandNameEn # <<>> \/ api_details.productModel # <<>>)
               /\ keywords_match.ok
            THEN Step(SubstituteValue(block, keywords_match, keyword_string), TRUE, "none")
            ELSE Step(block, FALSE, "none")
    IN  Rewrite(KeywordString(jlc_id, api_details),
                PropertySearch(block, "ki_keywords", TRUE))

\* lines 339-358: the ki_keywords rewrite
KeywordStep(block, jlc_id, api_details) ==
    LET Rewrite(keyword_string, keywords_match) ==
            IF /\ (api_details.brandNameEn # <<>> \/ api_details.productModel # <<>>)
               /\ keywords_match.ok
               /\ Strip(Group(block, keywords_match)) = jlc_id
            THEN IF BadTemplate(keyword_string)
                 THEN Step(block, FALSE, "re.error")
                 ELSE Step(SubstituteValue(block, keywords_match, keyword_string),
                           TRUE, "none")
            ELSE Step(block, FALSE, "none")
    IN  Rewrite(KeywordString(jlc_id, api_details),
                PropertySearch(block, "ki_keywords", TRUE))

\* a selection that takes every top-level block with an LCSC property
IsTarget_AnyId(block, jlc_id) ==
    /\ SymbolSearch(block).ok
    /\ ~IsSubSymbol(Group(block, SymbolSearch(block)))
    /\ PropertySearch(block, "LCSC", FALSE).ok

\* lines 274-290: the block is the one to update
IsTarget(block, jlc_id) ==
    LET symbol_match == SymbolSearch(block)
        lcsc_match   == PropertySearch(block, "LCSC", FALSE)
    IN  /\ symbol_match.ok
        /\ ~IsSubSymbol(Group(block, symbol_match))
        /\ lcsc_match.ok
        /\ Group(block, lcsc_match) = jlc_id

\* lines 292-360: the three rewrites in sequence; an exception ends the call
UpdateBlock(block, jlc_id, api_details) ==
    LET Keywords(v, d, k) ==
            IF k.exc # "none" THEN k
            ELSE Step(k.text, v.updated \/ d.updated \/ k.updated, "none")
        Description(v, d) ==
            IF d.exc # "none" THEN d
            ELSE Keywords(v, d, KeywordStep(d.text, jlc_id, api_details))
        Value(v) ==
            IF v.exc # "none" THEN v
            ELSE Description(v, DescriptionStep(v.text, api_details))
    IN  Value(ValueStep(block, api_details))

----------------------------------------------------------------------------
(* update_symbol_in_file: the whole call *)

MissingFile   == [exists |-> FALSE, content |-> <<>>]
FileOf(text)  == [exists |-> TRUE, content |-> text]

\* str.encode('utf-8') rejects a lone surrogate
Unencodable(content) == Occurs(Surrogate, content)

\* what the environment does to the call's file operations
IoOutcomes == {"ok", "copy_fails", "read_fails", "write_open_fails", "write_cut"}

\* a copy that leaves an existing backup in place
copy2_KeepsOldBackup(symbol_file, backup_file) ==
    IF backup_file.exists THEN backup_file ELSE FileOf(symbol_file.content)

\* lines 259-260: shutil.copy2(symbol_file, backup_file), the new backup file
copy2(symbol_file, backup_file) == FileOf(symbol_file.content)

Result(f, b, r, e, x) == [file |-> f, backup |-> b, ret |-> r, exc |-> e, raised |-> x]

\* a handler that lets the exception out
Caught_Reraises(f, b, e) == Result(f, b, FALSE, e, TRUE)

\* lines 370-372: except Exception: print, return False
Caught(f, b, e) == Result(f, b, FALSE, e, FALSE)

\* a loop that forgets the segments in which it finds no symbol name
UpdateBlocks_DropsUnparsed(symbol_blocks, jlc_id, api_details) ==
    [i \in 1..Len(symbol_blocks) |->
        IF ~SymbolSearch(symbol_blocks[i]).ok
        THEN Step(<<>>, FALSE, "none")
        ELSE IF IsTarget(symbol_blocks[i], jlc_id)
        THEN UpdateBlock(symbol_blocks[i], jlc_id, api_details)
        ELSE Step(symbol_blocks[i], FALSE, "none")]

\* lines 272-360: the loop over the blocks
UpdateBlocks(symbol_blocks, jlc_id, api_details) ==
    [i \in 1..Len(symbol_blocks) |->
        IF IsTarget(symbol_blocks[i], jlc_id)
        THEN UpdateBlock(symbol_blocks[i], jlc_id, api_details)
        ELSE Step(symbol_blocks[i], FALSE, "none")]

\* lines 265-368 for the blocks of the split: an exception of the loop ends the
\* call; else the joined text is written if a block was updated
SplitAndWrite(symbol_file, copied, header, steps, io) ==
    LET failed      == {i \in 1..Len(steps) : steps[i].exc # "none"}
        updated     == \E i \in 1..Len(steps) : steps[i].updated
        new_content == header \o Join([i \in 1..Len(steps) |-> steps[i].text])
        Write(text) == IF Unencodable(text)
                       THEN Caught(FileOf(<<>>), copied, "UnicodeEncodeError")
                       ELSE Result(FileOf(text), copied, TRUE, "none", FALSE)
    IN  IF failed # {}
        THEN Caught(symbol_file, copied, steps[Least(failed)].exc)
        ELSE IF ~updated
        THEN Result(symbol_file, copied, FALSE, "none", FALSE)
        ELSE IF io = "write_open_fails"
        THEN Caught(symbol_file, copied, "OSError in write_text")
        ELSE IF io = "write_cut"
        THEN Caught(FileOf(<<>>), copied, "OSError in write_text")
        ELSE Write(new_content)

update_symbol_in_file(symbol_file, backup_file, jlc_id, api_details, io) ==
    LET copied      == copy2(symbol_file, backup_file)
        Blocks(parts) == SplitAndWrite(symbol_file, copied, Head(parts),
                                       UpdateBlocks(Tail(parts), jlc_id, api_details), io)
    IN  IF ~symbol_file.exists \/ Falsy(api_details)
        THEN Result(symbol_file, backup_file, FALSE, "none", FALSE)
        ELSE IF io = "copy_fails"
        THEN Caught(symbol_file, backup_file, "OSError in copy2")
        ELSE IF io = "read_fails"
        THEN Caught(symbol_file, copied, "UnicodeDecodeError")
        ELSE Blocks(ReSplit(symbol_file.content))

----------------------------------------------------------------------------
(* The three extractions *)

\* a function's outcome: a returned value, or an exception let out
Returned(v) == [exc |-> "none", val |-> v]
Raised(e)   == [exc |-> e, val |-> <<>>]

\* Path.read_text()
read_text(symbol_file) ==
    IF symbol_file.exists THEN Returned(symbol_file.content) ELSE Raised("FileNotFoundError")

\* {} and dict assignment
EmptyMap == [k \in {} |-> <<>>]
Put(map, key, v) == [k \in DOMAIN map \cup {key} |-> IF k = key THEN v ELSE map[k]]

\* a decoding that leaves the escape in place
Decode_Keeps(name) == name

\* str.replace("{slash}", "/")
Decode(name) == [i \in 1..Len(name) |-> IF name[i] = "{slash}" THEN "/" ELSE name[i]]

\* \(property "<pname>" "([^"]+)" at position i, the blanks single and literal
LiteralPropertyAt(s, i, pname) ==
    IF /\ i + 5 <= Len(s) /\ s[i] = LProp /\ s[i + 1] = SP /\ s[i + 2] = Q
       /\ s[i + 3] = pname /\ s[i + 4] = Q /\ s[i + 5] = SP
    THEN QuotedAt(s, i + 6, FALSE)
    ELSE NoMatch

\* \(symbol "([^"]+)" at position i
LiteralSymbolAt(s, i) ==
    IF i + 1 <= Len(s) /\ s[i] = LSym /\ s[i + 1] = SP
    THEN QuotedAt(s, i + 2, FALSE)
    ELSE NoMatch

\* re.search(r'\(property "LCSC" "([^"]+)"', line)
LiteralLcscSearch(line) ==
    LiteralPropertyAt(line, FirstPos(line, 1, LAMBDA i : LiteralPropertyAt(line, i, "LCSC").ok),
                      "LCSC")

\* re.search(r'\(symbol "([^"]+)"', line)
LiteralSymbolSearch(line) ==
    LiteralSymbolAt(line, FirstPos(line, 1, LAMBDA i : LiteralSymbolAt(line, i).ok))

\* an extraction that reads without asking whether the file exists
get_installed_components_Unguarded(symbol_file) ==
    LET Find(content) ==
            {Group(content, LiteralPropertyAt(content, i, "LCSC")) :
                 i \in {j \in 1..Len(content) : LiteralPropertyAt(content, j, "LCSC").ok}}
        Read(r) == IF r.exc # "none" THEN r ELSE Returned(Find(r.val))
    IN  Read(read_text(symbol_file))

\* lines 15-27: re.findall of the LCSC pattern over the whole text, as a set
get_installed_components(symbol_file) ==
    LET Find(content) ==
            {Group(content, LiteralPropertyAt(content, i, "LCSC")) :
                 i \in {j \in 1..Len(content) : LiteralPropertyAt(content, j, "LCSC").ok}}
        Read(r) == IF r.exc # "none" THEN r ELSE Returned(Find(r.val))
    IN  IF ~symbol_file.exists THEN Returned({}) ELSE Read(read_text(symbol_file))

\* str.splitlines(): the text between line breaks, no empty last line
splitlines(content) ==
    LET breaks == {p \in 1..Len(content) : content[p] = NL}
        n      == Cardinality(breaks)
        Break(k) == IF k = 0 THEN 0
                    ELSE IF k > n THEN Len(content) + 1
                    ELSE CHOOSE p \in breaks : Cardinality({q \in breaks : q < p}) = k - 1
        count  == IF content # <<>> /\ Last(content) # NL THEN n + 1 ELSE n
    IN  [k \in 1..count |-> SubSeq(content, Break(k - 1) + 1, Break(k) - 1)]

\* current_symbol = None, which is as false as the empty string
NoSymbol == <<>>

\* a scan step that keeps the first name it met
ScanLine_KeepsName(st, line) ==
    LET Step2(symbol_match, lcsc_match) ==
            IF symbol_match.ok
            THEN [current_symbol |-> IF st.current_symbol = NoSymbol
                                     THEN Decode(Group(line, symbol_match))
                                     ELSE st.current_symbol,
                  components |-> st.components]
            ELSE IF lcsc_match.ok /\ st.current_symbol # NoSymbol
            THEN [current_symbol |-> st.current_symbol,
                  components |-> Put(st.components, Group(line, lcsc_match),
                                     st.current_symbol)]
            ELSE st
    IN  Step2(LiteralSymbolSearch(line), LiteralLcscSearch(line))

\* lines 47-62: one line of the scan
ScanLine(st, line) ==
    LET Step2(symbol_match, lcsc_match) ==
            IF symbol_match.ok
            THEN [current_symbol |-> Decode(Group(line, symbol_match)),
                  components |-> st.components]
            ELSE IF lcsc_match.ok /\ st.current_symbol # NoSymbol
            THEN [current_symbol |-> st.current_symbol,
                  components |-> Put(st.components, Group(line, lcsc_match),
                                     st.current_symbol)]
            ELSE st
    IN  Step2(LiteralSymbolSearch(line), LiteralLcscSearch(line))

RECURSIVE ScanLines(_, _, _)
ScanLines(lines, k, st) ==
    IF k > Len(lines) THEN st ELSE ScanLines(lines, k + 1, ScanLine(st, lines[k]))

\* lines 37-64
get_installed_components_with_part_numbers(symbol_file) ==
    IF ~symbol_file.exists THEN Returned(EmptyMap)
    ELSE Returned(ScanLines(splitlines(symbol_file.content), 1,
                            [current_symbol |-> NoSymbol, components |-> EmptyMap]).components)

\* lines 91-125: the record of one block, if it yields one
RecordOf(block) ==
    LET Fields(symbol_match, lcsc_match, value_match, desc_match) ==
            IF ~symbol_match.ok THEN [ok |-> FALSE]
            ELSE IF IsSubSymbol(Group(block, symbol_match)) THEN [ok |-> FALSE]
            ELSE IF ~lcsc_match.ok THEN [ok |-> FALSE]
            ELSE [ok |-> TRUE,
                  lcsc |-> Group(block, lcsc_match),
                  rec |-> [part_number |-> Decode(Group(block, symbol_match)),
                           value |-> Decode(IF value_match.ok
                                            THEN Group(block, value_match)
                                            ELSE Group(block, symbol_match)),
                           description |-> IF desc_match.ok
                                           THEN Group(block, desc_match) ELSE <<>>]]
    IN  Fields(SymbolSearch(block),
               PropertySearch(block, "LCSC", FALSE),
               PropertySearch(block, "Value", FALSE),
               PropertySearch(block, "Description", FALSE))

RECURSIVE CollectRecords(_, _, _)
CollectRecords(symbol_blocks, k, components) ==
    LET Add(r) == IF r.ok THEN Put(components, r.lcsc, r.rec) ELSE components
    IN  IF k > Len(symbol_blocks) THEN components
        ELSE CollectRecords(symbol_blocks, k + 1, Add(RecordOf(symbol_blocks[k])))

\* lines 81-127
get_component_details_from_symbol(symbol_file) ==
    IF ~symbol_file.exists THEN Returned(EmptyMap)
    ELSE Returned(CollectRecords(Tail(ReSplit(symbol_file.content)), 1, EmptyMap))

----------------------------------------------------------------------------
(* Documents as the generator writes them *)

Property(pname, value) ==
    <<NL, SP, SP, LProp, SP, Q, pname, Q, SP, Q>> \o value \o <<Q, SP, LPar, "id 0", RPar, RPar>>

SymbolOpen(name)  == <<NL, SP, LSym, SP, Q>> \o name \o <<Q>>
SymbolClose       == <<NL, SP, RPar>>
SubSymbol(name)   == <<NL, SP, SP, LSym, SP, Q>> \o name \o <<Q, RPar>>
LibHeader         == <<LPar, "kicad_symbol_lib">>
LibFooter         == <<NL, RPar, NL>>

IdC1 == <<"C", "1">>
IdC2 == <<"C", "2">>
Ids  == {IdC1, IdC2}

NameU7 == <<"U", "7">>

\* the blocks of the component C1 that a library may hold
TargetBlocks ==
    { \* as generated: no Description, properties after the Datasheet, a unit
      SymbolOpen(NameU7) \o Property("Value", <<"A", "B", "C", "D", "E", "F", "G">>)
        \o Property("Datasheet", <<"u">>) \o Property("LCSC", IdC1)
        \o Property("ki_keywords", IdC1) \o SubSymbol(NameU7 \o <<"_", "0", "_", "1">>)
        \o SymbolClose,
      \* edited by hand: a Description and a curated keyword list
      SymbolOpen(NameU7) \o Property("Value", <<"A", "B", "C", "D", "E", "F", "G">>)
        \o Property("LCSC", IdC1) \o Property("Description", <<"o", "l", "d">>)
        \o Property("ki_keywords", IdC1 \o <<SP, "x">>) \o SymbolClose,
      \* a short Value, neither Datasheet nor Description
      SymbolOpen(NameU7) \o Property("Value", <<"A", "B", "C", "D", "E", "F">>)
        \o Property("LCSC", IdC1) \o SymbolClose,
      \* a Value with a dot, the Datasheet as the last property before a unit
      SymbolOpen(NameU7) \o Property("Value", <<"A", "B", "C", "D", ".", "F", "G">>)
        \o Property("LCSC", IdC1) \o Property("Datasheet", <<"u">>)
        \o SubSymbol(NameU7 \o <<"_", "0", "_", "1">>) \o SymbolClose,
      \* a Value ending in a newline, two Descriptions, padded keywords
      SymbolOpen(NameU7) \o Property("Value", <<"A", "B", "C", "D", "E", "F", NL>>)
        \o Property("LCSC", IdC1) \o Property("Description", <<>>)
        \o Property("Description", <<"o", "l", "d">>)
        \o Property("ki_keywords", <<SP>> \o IdC1) \o SymbolClose }

\* the blocks that may follow it
OtherBlocks ==
    { <<>>,
      \* another component
      SymbolOpen(<<"R", "5">>) \o Property("Value", <<"0", "8", "0", "5", "W", "8", "F">>)
        \o Property("LCSC", IdC2) \o Property("Description", <<"o", "l", "d">>)
        \o Property("ki_keywords", IdC2) \o SymbolClose,
      \* a second top-level block that carries the same LCSC value
      SymbolOpen(<<"U", "8">>) \o Property("Value", <<"A", "B", "C", "D", "E", "F", "G">>)
        \o Property("LCSC", IdC1) \o Property("Description", <<"o", "l", "d">>)
        \o SymbolClose,
      \* a block with a sub-symbol name that carries the same LCSC value
      SymbolOpen(<<"X", "_", "1", "_", "1">>) \o Property("LCSC", IdC1)
        \o Property("Description", <<"o", "l", "d">>) \o SymbolClose }

Documents ==
    {LibHeader \o LibFooter}
    \cup {LibHeader \o a \o b \o LibFooter : a \in TargetBlocks, b \in OtherBlocks}

\* the supplier records
DetailsPool ==
    { DetailsNone, DetailsEmpty,
      \* a non-empty mapping without any of the keys read
      Details(NoText, NoText, NoText, NoText, NoText),
      \* an active part
      Details(<<"b", "u", "c", "k", SP, "RoHS">>, <<"L", "M", "7", "-", "T", "R">>,
              <<"T", "I">>, <<"voltage regulator">>, NoText),
      \* a resistor
      Details(<<"1", "0", "k", Ohm, SP, "Resistor", SP, "ROHS">>,
              <<"R", "0", "8", "0", "5">>, NoText, <<"resistors">>, NoText),
      \* a capacitor without model and brand
      Details(<<"1", "0", "u", "F">>, NoText, NoText, NoText, <<"Capacitor">>),
      \* only a brand
      Details(NoText, NoText, <<"T", "I">>, NoText, NoText),
      \* an introduction with an inch mark
      Details(<<"0", ".", "1", Q, SP, "p">>, NoText, NoText, NoText, NoText),
      \* an introduction with a lone surrogate
      Details(<<"x", Surrogate>>, NoText, NoText, NoText, NoText),
      \* an introduction with a backslash
      Details(<<"a", BadEsc>>, NoText, NoText, NoText, NoText),
      \* productIntroEn: null
      [Details(NoText, <<"M">>, NoText, NoText, NoText) EXCEPT !.introIsNone = TRUE] }

----------------------------------------------------------------------------
(* The library as sync and the generator build it *)

\* a name with an escape
NameSlash == <<"U", "{slash}", "7">>

\* the library file ensure_lib_structure writes
EmptyLibrary ==
    LibHeader \o <<SP, LPar, "version 20210201", RPar, SP, LPar,
                   "generator kicad-jlc-manager", RPar>> \o LibFooter

\* Path.mkdir(parents=True, exist_ok=True) on a path that is missing, a
\* directory or a regular file
mkdir(kind) ==
    IF kind = "file" THEN [exc |-> "FileExistsError", kind |-> kind]
    ELSE [exc |-> "none", kind |-> "dir"]

\* project.py, lines 63-70: the three directories, one after the other
MakeDirs(tree) ==
    LET Models(t, m)    == IF m.exc # "none" THEN [tree |-> t, exc |-> m.exc]
                           ELSE [tree |-> [t EXCEPT !.models = m.kind], exc |-> "none"]
        Footprint(t, f) == IF f.exc # "none" THEN [tree |-> t, exc |-> f.exc]
                           ELSE Models([t EXCEPT !.footprint = f.kind], mkdir(t.models))
        Symbol(t, y)    == IF y.exc # "none" THEN [tree |-> t, exc |-> y.exc]
                           ELSE Footprint([t EXCEPT !.symbol = y.kind], mkdir(t.footprint))
    IN  Symbol(tree, mkdir(tree.symbol))

\* a creation that writes the empty library over the one that is there
ensure_lib_structure_Overwrites(symbol_file) == FileOf(EmptyLibrary)

\* project.py, lines 73-77: the symbol library is created if it does not exist
ensure_lib_structure(symbol_file) ==
    IF symbol_file.exists THEN symbol_file ELSE FileOf(EmptyLibrary)

\* shutil.rmtree(lib_path): the library and its backup are gone
rmtree == MissingFile

\* the symbol the generator writes for a part: name, Value, Datasheet, LCSC,
\* keywords and one unit
GeneratedSymbol(part_number) ==
    LET Symbol(name, value) ==
            SymbolOpen(name) \o Property("Value", value) \o Property("Datasheet", <<"u">>)
              \o Property("LCSC", part_number) \o Property("ki_keywords", part_number)
              \o SubSymbol(name \o <<"_", "0", "_", "1">>) \o SymbolClose
    IN  IF part_number = IdC1
        THEN Symbol(NameSlash, <<"A", "B", "C", "D", "E", "F", "G">>)
        ELSE Symbol(<<"R", "5">>, <<"0", "8", "0", "5", "W", "8", "F">>)

\* JLC2KiCadLib <part> -symbol_lib jlc_project --skip_existing, exit status 0:
\* the symbol is put before the closing parenthesis of the library unless the
\* library holds the part already
JLC2KiCadLib(symbol_file, part_number) ==
    LET content == symbol_file.content
        n       == Len(content)
        held    == \E i \in 1..n :
                       /\ LiteralPropertyAt(content, i, "LCSC").ok
                       /\ Group(content, LiteralPropertyAt(content, i, "LCSC")) = part_number
    IN  IF ~symbol_file.exists
        THEN FileOf(LibHeader \o GeneratedSymbol(part_number) \o LibFooter)
        ELSE IF held THEN symbol_file
        ELSE IF n >= 3 /\ SubSeq(content, n - 2, n) = LibFooter
        THEN FileOf(SubSeq(content, 1, n - 3) \o GeneratedSymbol(part_number) \o LibFooter)
        ELSE FileOf(content \o GeneratedSymbol(part_number))

----------------------------------------------------------------------------
(* The manifest jlcproject.toml (src/src/kicad_jlc_manager/config.py).      *)
(* The file is a sequence of lexemes as well: keys, "=", brackets, commas,  *)
(* "#", quotes, blanks and newlines; table headers are kept whole.          *)

Assign   == "="
LBr      == "["
RBr      == "]"
Comma    == ","
Hash     == "#"
KeyComponents   == "components"
TableProject    == "[project]"
TableComponents == "[components]"
TableOther      == "[other]"
TopLevel        == "top"
\* the escape C in a basic string, which TOML reads as the letter C
EscC     == "\\u0043"

IsTableHeader(t) == t \in {TableProject, TableComponents, TableOther}

\* what a TOML parser makes of the content of a basic string
Unescape(str) == [i \in 1..Len(str) |-> IF str[i] = EscC THEN "C" ELSE str[i]]

\* the position after the line that holds position i
AfterLine(s, i) == FirstPos(s, i, LAMBDA j : s[j] = NL) + 1

\* the configuration mapping: the components list (a table of components is
\* read as the list of its keys) and the project table as key/value pairs
NoConfig ==
    [components |-> <<>>, has_components |-> FALSE, project |-> <<>>, has_project |-> FALSE]

\* lines 52-60
get_default_config ==
    [components |-> <<>>, has_components |-> TRUE,
     project |-> << [key |-> <<"lib-dir">>, value |-> <<"jlclib">>],
                    [key |-> <<"lib-name">>, value |-> <<"JLC_Project">>] >>,
     has_project |-> TRUE]

ArrayError == [ok |-> FALSE, items |-> <<>>, end |-> 0]

\* the items of an array of strings from position i on, up to its "]"
RECURSIVE ParseArray(_, _, _, _)
ParseArray(s, i, items, need_sep) ==
    LET j == SkipWs(s, i)
        e == SkipNonQ(s, j + 1)
    IN  IF j > Len(s) THEN ArrayError
        ELSE IF s[j] = RBr THEN [ok |-> TRUE, items |-> items, end |-> j]
        ELSE IF s[j] = Hash THEN ParseArray(s, AfterLine(s, j), items, need_sep)
        ELSE IF s[j] = Comma
        THEN (IF need_sep THEN ParseArray(s, j + 1, items, FALSE) ELSE ArrayError)
        ELSE IF s[j] = Q /\ ~need_sep
        THEN (IF e > Len(s) \/ Occurs(NL, SubSeq(s, j + 1, e - 1)) THEN ArrayError
              ELSE ParseArray(s, e + 1, Append(items, Unescape(SubSeq(s, j + 1, e - 1))), TRUE))
        ELSE ArrayError

\* one key/value pair is put into the mapping
Assigned(cfg, table, key, is_array, items, str) ==
    IF table = TopLevel /\ key = <<KeyComponents>> /\ is_array
    THEN [cfg EXCEPT !.components = items, !.has_components = TRUE]
    ELSE IF table = TableComponents
    THEN [cfg EXCEPT !.components = Append(@, key), !.has_components = TRUE]
    ELSE IF table = TableProject /\ ~is_array
    THEN [cfg EXCEPT !.project = Append(@, [key |-> key, value |-> str])]
    ELSE cfg

\* a key defined twice
Redefined(cfg, table, key) ==
    \/ table = TopLevel /\ key = <<KeyComponents>> /\ cfg.has_components
    \/ table = TableComponents /\ \E n \in 1..Len(cfg.components) : cfg.components[n] = key
    \/ table = TableProject /\ \E n \in 1..Len(cfg.project) : cfg.project[n].key = key

\* tomllib.load: the statements of the document from position i on
RECURSIVE Statements(_, _, _, _)
Statements(s, i, table, cfg) ==
    LET j   == SkipWs(s, i)
        k   == FirstPos(s, j, LAMBDA p : s[p] \in {SP, Assign, NL})
        eq  == SkipBlank(s, k)
        v   == SkipBlank(s, eq + 1)
        key == SubSeq(s, j, k - 1)
        e   == SkipNonQ(s, v + 1)
        arr == ParseArray(s, v + 1, <<>>, FALSE)
    IN  IF j > Len(s) THEN Returned(cfg)
        ELSE IF s[j] = Hash THEN Statements(s, AfterLine(s, j), table, cfg)
        ELSE IF IsTableHeader(s[j])
        THEN Statements(s, j + 1, s[j],
                        IF s[j] = TableComponents THEN [cfg EXCEPT !.has_components = TRUE]
                        ELSE IF s[j] = TableProject THEN [cfg EXCEPT !.has_project = TRUE]
                        ELSE cfg)
        ELSE IF k = j \/ eq > Len(s) \/ s[eq] # Assign \/ v > Len(s)
             \/ Redefined(cfg, table, key)
        THEN Raised("TOMLDecodeError")
        ELSE IF s[v] = Q
        THEN (IF e > Len(s) \/ Occurs(NL, SubSeq(s, v + 1, e - 1))
              THEN Raised("TOMLDecodeError")
              ELSE Statements(s, e + 1, table,
                              Assigned(cfg, table, key, FALSE, <<>>,
                                       Unescape(SubSeq(s, v + 1, e - 1)))))
        ELSE IF s[v] = LBr
        THEN (IF ~arr.ok THEN Raised("TOMLDecodeError")
              ELSE Statements(s, arr.end + 1, table,
                              Assigned(cfg, table, key, TRUE, arr.items, <<>>)))
        ELSE Raised("TOMLDecodeError")

\* lines 16-25: the defaults when there is no file, else the file as parsed
load(config_file) ==
    IF ~config_file.exists THEN Returned(get_default_config)
    ELSE Statements(config_file.content, 1, TopLevel, NoConfig)

\* lines 35-44: the components, one line each, the id between quotes as it is
RECURSIVE WriteComponents(_)
WriteComponents(components) ==
    IF components = <<>> THEN <<>>
    ELSE <<SP, SP, SP, SP, Q>> \o Head(components) \o <<Q, Comma, NL>>
           \o WriteComponents(Tail(components))

\* lines 46-50: the keys of the project table
RECURSIVE WriteProject(_)
WriteProject(project) ==
    IF project = <<>> THEN <<>>
    ELSE (IF Head(project).key = <<KeyComponents>> THEN <<>>
          ELSE Head(project).key \o <<SP, Assign, SP, Q>> \o Head(project).value \o <<Q, NL>>)
           \o WriteProject(Tail(project))

\* lines 27-50: the file is written anew from the mapping
save(config) ==
    FileOf(<<KeyComponents, SP, Assign, SP, LBr, NL>> \o WriteComponents(config.components)
             \o <<RBr, NL, NL, TableProject, NL>> \o WriteProject(config.project))

\* lines 72-79
get_components(config_file) ==
    LET Got(r) == IF r.exc # "none" THEN r ELSE Returned(r.val.components)
    IN  Got(load(config_file))

\* lines 96-122: one line of the scan for descriptions
DescriptionLine(st, line) ==
    LET stripped == Strip(line)
        first    == IF stripped = <<>> THEN "" ELSE stripped[1]
        close    == SkipNonQ(stripped, 2)
        hash     == FirstPos(stripped, 1, LAMBDA p : stripped[p] = Hash)
    IN  IF st.stop THEN st
        ELSE IF first = KeyComponents THEN [st EXCEPT !.in_components_array = TRUE]
        ELSE IF st.in_components_array /\ (first = LBr \/ IsTableHeader(first))
        THEN [st EXCEPT !.stop = TRUE]
        ELSE IF st.in_components_array /\ first = Q
        THEN [st EXCEPT !.components_dict =
                  Put(@, SubSeq(stripped, 2, close - 1),
                      IF hash <= Len(stripped)
                      THEN Strip(SubSeq(stripped, hash + 1, Len(stripped)))
                      ELSE <<>>)]
        ELSE st

RECURSIVE DescriptionLines(_, _, _)
DescriptionLines(lines, n, st) ==
    IF n > Len(lines) THEN st ELSE DescriptionLines(lines, n + 1, DescriptionLine(st, lines[n]))

\* lines 81-124
get_components_with_descriptions(config_file) ==
    IF ~config_file.exists THEN EmptyMap
    ELSE DescriptionLines(splitlines(config_file.content), 1,
                          [in_components_array |-> FALSE, stop |-> FALSE,
                           components_dict |-> EmptyMap]).components_dict

InList(list, x) == \E n \in 1..Len(list) : list[n] = x

\* list.remove(x): the first occurrence goes
ListRemove(list, x) ==
    LET n == Least({m \in 1..Len(list) : list[m] = x})
    IN  SubSeq(list, 1, n - 1) \o SubSeq(list, n + 1, Len(list))

\* lines 126-141
add_component(config_file, jlc_id) ==
    LET Added(r) ==
            IF r.exc # "none" THEN [file |-> config_file, exc |-> r.exc]
            ELSE [file |-> save([r.val EXCEPT !.components =
                                                  IF InList(@, jlc_id) THEN @
                                                  ELSE Append(@, jlc_id),
                                              !.has_components = TRUE]),
                  exc |-> "none"]
    IN  Added(load(config_file))

\* lines 143-163
remove_component(config_file, jlc_id) ==
    LET Removed(r) ==
            IF r.exc # "none" THEN [file |-> config_file, found |-> FALSE, exc |-> r.exc]
            ELSE IF InList(r.val.components, jlc_id)
            THEN [file |-> save([r.val EXCEPT !.components = ListRemove(@, jlc_id),
                                              !.has_components = TRUE]),
                  found |-> TRUE, exc |-> "none"]
            ELSE [file |-> config_file, found |-> FALSE, exc |-> "none"]
    IN  Removed(load(config_file))

----------------------------------------------------------------------------
(* The library tables sym-lib-table and fp-lib-table                        *)
(* (src/src/kicad_jlc_manager/library.py).  The closing parenthesis of the  *)
(* table, of the version and of every lib entry is a lexeme of its own, so  *)
(* the last ")" of a text is its last RPar.                                 *)

SymTableOpen == "(sym_lib_table"
FpTableOpen  == "(fp_lib_table"
VersionOpen  == "(version 7"
LibOpen      == "(lib (name "
TypeAndUri   == ")(type \"KiCad\")(uri \"${KIPRJMOD}/"
SymbolPath   == "/symbol/jlc_project.kicad_sym"
FootprintPath == "/footprint"
SymbolDescr    == "\")(options \"\")(descr \"Project-local JLC components\")"
FootprintDescr == "\")(options \"\")(descr \"Project-local JLC component footprints\")"

\* the text t stands somewhere in the text s
Contains(s, t) ==
    \E i \in 1..(Len(s) - Len(t) + 1) : SubSeq(s, i, i + Len(t) - 1) = t

\* str.rfind(")"): the last closing parenthesis, -1 when there is none
Rfind(content) ==
    LET closes == {p \in 1..Len(content) : content[p] = RPar}
    IN  IF closes = {} THEN -1 ELSE CHOOSE p \in closes : \A q \in closes : q <= p

\* a lib entry, without the line around it
LibEntry(lib_name, lib_dir, path, descr) ==
    <<LibOpen, Q>> \o lib_name \o <<Q, TypeAndUri>> \o lib_dir \o <<path, descr, RPar>>

\* lines 49-55 and 57-63
GenerateTable(open, lib_name, lib_dir, path, descr) ==
    <<open, NL, SP, SP, VersionOpen, RPar, NL, SP, SP>>
      \o LibEntry(lib_name, lib_dir, path, descr) \o <<NL, RPar, NL>>

generate_sym_lib_table(lib_name, lib_dir) ==
    GenerateTable(SymTableOpen, lib_name, lib_dir, SymbolPath, SymbolDescr)

generate_fp_lib_table(lib_name, lib_dir) ==
    GenerateTable(FpTableOpen, lib_name, lib_dir, FootprintPath, FootprintDescr)

\* lines 65-81 and 83-99: the entry is put before the last closing parenthesis
AddToTable(content, generated, entry) ==
    LET Insert(insert_pos) ==
            IF insert_pos = -1 THEN FileOf(generated)
            ELSE FileOf(SubSeq(content, 1, insert_pos - 1) \o <<SP, SP>> \o entry \o <<NL>>
                          \o SubSeq(content, insert_pos, Len(content)))
    IN  Insert(Rfind(content))

add_to_sym_lib_table(content, lib_name, lib_dir) ==
    AddToTable(content, generate_sym_lib_table(lib_name, lib_dir),
               LibEntry(lib_name, lib_dir, SymbolPath, SymbolDescr))

add_to_fp_lib_table(content, lib_name, lib_dir) ==
    AddToTable(content, generate_fp_lib_table(lib_name, lib_dir),
               LibEntry(lib_name, lib_dir, FootprintPath, FootprintDescr))

\* lines 15-30
ensure_symbol_library(sym_lib_table, lib_name, lib_dir) ==
    IF ~sym_lib_table.exists THEN FileOf(generate_sym_lib_table(lib_name, lib_dir))
    ELSE IF ~Contains(sym_lib_table.content, lib_name)
    THEN add_to_sym_lib_table(sym_lib_table.content, lib_name, lib_dir)
    ELSE sym_lib_table

\* lines 32-47
ensure_footprint_library(fp_lib_table, lib_name, lib_dir) ==
    IF ~fp_lib_table.exists THEN FileOf(generate_fp_lib_table(lib_name, lib_dir))
    ELSE IF ~Contains(fp_lib_table.content, lib_name)
    THEN add_to_fp_lib_table(fp_lib_table.content, lib_name, lib_dir)
    ELSE fp_lib_table

----------------------------------------------------------------------------
(* The commands add and remove (src/src/kicad_jlc_manager/cli.py) *)

\* dict.get on the project table of the configuration
ProjectGet(config, key, default) ==
    LET hits == {n \in 1..Len(config.project) : config.project[n].key = key}
    IN  IF hits = {} THEN default ELSE config.project[Least(hits)].value

\* config.py, lines 62-65
get_lib_dir(config_file) ==
    LET Got(r) == IF r.exc # "none" THEN r
                  ELSE Returned(ProjectGet(r.val, <<"lib-dir">>, <<"jlclib">>))
    IN  Got(load(config_file))

\* config.py, lines 67-70
get_lib_name(config_file) ==
    LET Got(r) == IF r.exc # "none" THEN r
                  ELSE Returned(ProjectGet(r.val, <<"lib-name">>, <<"JLC_Project">>))
    IN  Got(load(config_file))

\* an enrichment whose False result is an error of the command
Enrich_Raises(generated, backup_file, part, fetched, io) ==
    LET Failed(r) == IF r.ret THEN r ELSE [r EXCEPT !.raised = TRUE]
    IN  Failed(update_symbol_in_file(generated, backup_file, part, fetched, io))

\* cli.py, lines 86-96 and 173-177: the record is fetched, and the symbol is
\* updated only if there is a record; what the update returns is only shown
Enrich(generated, backup_file, part, fetched, io) ==
    IF Falsy(fetched) THEN Result(generated, backup_file, FALSE, "none", FALSE)
    ELSE update_symbol_in_file(generated, backup_file, part, fetched, io)

\* an add that records the id before it runs the generator
add_try_TracksFirst(symbol_file, backup_file, config_file, part, outcome, fetched, io) ==
    [file |-> symbol_file, backup |-> backup_file, ret |-> FALSE, exc |-> "none",
     raised |-> FALSE, called |-> FALSE, config |-> add_component(config_file, part).file,
     exit |-> IF outcome = "ok" THEN 0 ELSE 1]

\* cli.py, lines 68-110: the generator is run; after it succeeded the symbol
\* is enriched and the id is recorded; a generator that fails or is missing
\* ends the command with status 1
add_try(symbol_file, backup_file, config_file, part, outcome, fetched, io) ==
    LET Tracked(r, t) ==
            IF r.raised \/ t.exc # "none"
            THEN [file |-> r.file, backup |-> r.backup, ret |-> r.ret, exc |-> r.exc,
                  raised |-> r.raised, called |-> ~Falsy(fetched),
                  config |-> IF r.raised THEN config_file ELSE t.file, exit |-> 1]
            ELSE [file |-> r.file, backup |-> r.backup, ret |-> r.ret, exc |-> r.exc,
                  raised |-> FALSE, called |-> ~Falsy(fetched), config |-> t.file,
                  exit |-> 0]
    IN  IF outcome # "ok"
        THEN [file |-> symbol_file, backup |-> backup_file, ret |-> FALSE, exc |-> "none",
              raised |-> FALSE, called |-> FALSE, config |-> config_file, exit |-> 1]
        ELSE Tracked(Enrich(JLC2KiCadLib(symbol_file, part), backup_file, part, fetched, io),
                     add_component(config_file, part))

----------------------------------------------------------------------------
(* The state machine: repeated enrichment of one library file *)

MaxCalls  == 2
MaxFaults == 1

VARIABLES
    evaluated,      \* the functions that have been applied to the state's inputs
    comp_type,      \* the comp_type argument of extract_component_value
    component_type, \* what determine_component_type returned
    extracted       \* what extract_component_value returned

value_vars == <<evaluated, comp_type, component_type, extracted>>

VARIABLES
    installed,      \* what get_installed_components returned
    part_numbers,   \* what get_installed_components_with_part_numbers returned
    details,        \* what get_component_details_from_symbol returned
    extract_exc     \* the exception an extraction let out, "none" if none

extract_vars == <<installed, part_numbers, details, extract_exc>>

\* no extraction has returned anything
ExtractIdle ==
    /\ installed = {} /\ part_numbers = EmptyMap /\ details = EmptyMap
    /\ extract_exc = "none"

\* nothing has been evaluated
ValueIdle ==
    /\ evaluated = {} /\ comp_type = "unknown"
    /\ component_type = "unknown" /\ extracted = NoValue

VARIABLES
    symbol_file,    \* the .kicad_sym file
    backup_file,    \* the .kicad_sym.bak file
    jlc_id,         \* the arguments of the calls
    api_details,
    ret,            \* the value the last call returned
    exc,            \* the exception the last call met, "none" if none
    raised,         \* the last call let an exception out
    calls,          \* number of calls made
    faults,         \* number of calls the environment has disturbed
    pre_file,       \* symbol_file as the last call found it
    pre_backup,     \* backup_file as the last call found it
    prev_ret,       \* ret and exc of the call before the last
    prev_exc

update_vars == <<symbol_file, backup_file, jlc_id, api_details, ret, exc, raised, calls,
                 faults, pre_file, pre_backup, prev_ret, prev_exc>>

VARIABLES
    manifest,       \* components: what config.get_components() returned to sync
    sync_pc,        \* where sync stands: "idle", "start", "loop", "summary", "done"
    attempted,      \* the part numbers the generator was run for, in order
    success_count,
    fail_count,
    cleaned,        \* sync removed the library directory and created it anew
    outcomes        \* how each run of the generator ended: "ok", "error", "missing"

sync_vars == <<manifest, sync_pc, attempted, success_count, fail_count, cleaned, outcomes>>

\* no sync is running
SyncIdle ==
    /\ manifest = <<>> /\ sync_pc = "idle" /\ attempted = <<>>
    /\ success_count = 0 /\ fail_count = 0 /\ cleaned = FALSE
    /\ outcomes = <<>>

VARIABLES
    config_file,    \* the manifest jlcproject.toml
    pre_config,     \* config_file as the last manifest operation found it
    cfg_op,         \* the last manifest operation, "none" before the first
    cfg_id,         \* its argument
    found,          \* what remove_component returned
    cfg_exc,        \* the exception the operation let out, "none" if none
    edits           \* number of manifest operations made

config_vars == <<config_file, pre_config, cfg_op, cfg_id, found, cfg_exc, edits>>

\* no manifest, no operation on it
ConfigIdle ==
    /\ config_file = MissingFile /\ pre_config = MissingFile
    /\ cfg_op = "none" /\ cfg_id = <<>> /\ found = FALSE /\ cfg_exc = "none" /\ edits = 0

VARIABLES
    sym_lib_table,  \* the table files
    fp_lib_table,
    pre_sym,        \* the table files as the last registration found them
    pre_fp,
    lib_name,       \* the arguments of the registrations
    lib_dir,
    ensured         \* number of registrations made in each table

table_vars == <<sym_lib_table, fp_lib_table, pre_sym, pre_fp, lib_name, lib_dir, ensured>>

\* no tables, no registration
TablesIdle ==
    /\ sym_lib_table = MissingFile /\ fp_lib_table = MissingFile
    /\ pre_sym = MissingFile /\ pre_fp = MissingFile
    /\ lib_name = <<"JLC_Project">> /\ lib_dir = <<"jlclib">>
    /\ ensured = [sym |-> 0, fp |-> 0]

VARIABLES
    tree,           \* what stands at symbol/, footprint/ and 3dmodels/
    pre_tree,       \* tree as the last ensure_lib_structure found it
    struct_exc,     \* the exception it let out, "none" if none
    structured      \* number of calls of ensure_lib_structure

struct_vars == <<tree, pre_tree, struct_exc, structured>>

NoTree == [symbol |-> "missing", footprint |-> "missing", models |-> "missing"]

\* no library directory, no call
StructIdle ==
    /\ tree = NoTree /\ pre_tree = NoTree /\ struct_exc = "none" /\ structured = 0

VARIABLES
    start_dir,      \* the directory find_kicad_project is given
    projects,       \* the directories that hold a .kicad_pro file
    current,        \* the directory the search looks at
    find_pc,        \* "loop", "root" or "done"
    find_result     \* what find_kicad_project returns

find_vars == <<start_dir, projects, current, find_pc, find_result>>

\* a directory is the sequence of names that lead to it from the root
RootDir == << >>

None == [found |-> FALSE, root_dir |-> RootDir]

KiCadProject(root_dir) == [found |-> TRUE, root_dir |-> root_dir]

\* no search
FindIdle ==
    /\ start_dir = RootDir /\ projects = {} /\ current = RootDir
    /\ find_pc = "done" /\ find_result = None

VARIABLES
    command,        \* "add", "remove", or "none" when no command runs
    cmd_pc,         \* where the command stands
    cmd_arg,        \* the part number given to the command
    exit_status,    \* -1 while the command runs, then the status it ends with
    lib_path,       \* the library directory exists
    lib_before      \* the symbol library as the command found it

cmd_vars == <<command, cmd_pc, cmd_arg, exit_status, lib_path, lib_before>>

\* no command
CmdIdle ==
    /\ command = "none" /\ cmd_pc = "idle" /\ cmd_arg = <<>> /\ exit_status = -1
    /\ lib_path = FALSE /\ lib_before = MissingFile

rest_vars == <<config_vars, table_vars, struct_vars, find_vars, cmd_vars>>

RestIdle == ConfigIdle /\ TablesIdle /\ StructIdle /\ FindIdle /\ CmdIdle

vars == <<update_vars, value_vars, extract_vars, sync_vars, rest_vars>>

Init ==
    /\ symbol_file \in {MissingFile} \cup {FileOf(d) : d \in Documents}
    /\ backup_file = MissingFile
    /\ jlc_id \in Ids
    /\ api_details \in DetailsPool
    /\ ret = FALSE /\ exc = "none" /\ raised = FALSE
    /\ calls = 0 /\ faults = 0
    /\ pre_file = symbol_file /\ pre_backup = backup_file
    /\ prev_ret = FALSE /\ prev_exc = "none"
    /\ ValueIdle
    /\ ExtractIdle
    /\ SyncIdle
    /\ RestIdle

Call(io) ==
    /\ calls < MaxCalls
    /\ io # "ok" => faults < MaxFaults
    /\ \E r \in {update_symbol_in_file(symbol_file, backup_file, jlc_id, api_details, io)} :
           /\ symbol_file' = r.file
           /\ backup_file' = r.backup
           /\ ret' = r.ret /\ exc' = r.exc /\ raised' = r.raised
    /\ calls' = calls + 1
    /\ faults' = IF io = "ok" THEN faults ELSE faults + 1
    /\ pre_file' = symbol_file /\ pre_backup' = backup_file
    /\ prev_ret' = ret /\ prev_exc' = exc
    /\ UNCHANGED <<jlc_id, api_details>>

Update == Call("ok") /\ UNCHANGED <<value_vars, extract_vars, sync_vars, rest_vars>>
UpdateDisturbed ==
    /\ \E io \in IoOutcomes \ {"ok"} : Call(io)
    /\ UNCHANGED <<value_vars, extract_vars, sync_vars, rest_vars>>

Next == Update \/ UpdateDisturbed

Spec == Init /\ [][Next]_vars

----------------------------------------------------------------------------
(* Vocabulary of the properties *)

\* the document the last call found and the document it left, split into
\* header and blocks
PreParts  == ReSplit(pre_file.content)
PostParts == ReSplit(symbol_file.content)

\* the last call got past the guard of line 254
PastGuard == calls >= 1 /\ pre_file.exists /\ ~Falsy(api_details)

\* the last call wrote the document and returned True
Wrote == calls >= 1 /\ ret = TRUE

\* a block with a name that is no sub-symbol name, whose LCSC property holds the id
CarriesId(block, id) ==
    /\ SymbolSearch(block).ok
    /\ ~IsSubSymbol(Group(block, SymbolSearch(block)))
    /\ PropertySearch(block, "LCSC", FALSE).ok
    /\ Group(block, PropertySearch(block, "LCSC", FALSE)) = id

\* the blocks of the document found that are top-level and carry the id
TargetIdx == {i \in 2..Len(PreParts) : CarriesId(PreParts[i], jlc_id)}

\* the blocks that the last call altered
AlteredIdx == {i \in 1..Len(PreParts) : i > Len(PostParts) \/ PostParts[i] # PreParts[i]}

ValueOf(block)    == Group(block, PropertySearch(block, "Value", FALSE))
KeywordsOf(block) == Group(block, PropertySearch(block, "ki_keywords", TRUE))
HasProperty(block, pname) == PropertySearch(block, pname, TRUE).ok
PropertyCount(block, pname) ==
    Cardinality({i \in 1..Len(block) : PropertyAt(block, i, pname, TRUE).ok})

\* the closing parenthesis that balances the opening one at position i
MatchingClose(s, i) ==
    LET Opens(j)  == Cardinality({k \in i..j : HasOpen(s[k])})
        Closes(j) == Cardinality({k \in i..j : s[k] = RPar})
    IN  FirstPos(s, i, LAMBDA j : Opens(j) = Closes(j))

\* where the Datasheet property of a block ends
DatasheetStart(block) ==
    FirstPos(block, 1, LAMBDA i : PropertyAt(block, i, "Datasheet", TRUE).ok)
DatasheetEnd(block) == MatchingClose(block, DatasheetStart(block))

\* the introduction without its trailing RoHS / ROHS marker
WithoutTrailingMarker(text) ==
    IF Len(text) >= 2 /\ text[Len(text) - 1] = SP /\ Last(text) \in {"RoHS", "ROHS"}
    THEN SubSeq(text, 1, Len(text) - 2)
    ELSE text

\* only letters, digits, underscore, comma and hyphen
PartNumberChars(v) ==
    \A i \in 1..Len(v) : v[i] \in Upper \cup Lower \cup Digits \cup {"_", ",", "-"}

----------------------------------------------------------------------------
(* C1 - Mutation idempotence: of two consecutive undisturbed calls with the *)
(* same arguments on a document that holds the component, the second        *)
(* returns False.                                                           *)
C1_SecondCallReturnsFalse ==
    ( /\ calls = 2 /\ faults = 0
      /\ exc = "none" /\ prev_exc = "none"
      /\ ~Falsy(api_details)
      /\ TargetIdx # {} )
    => ret = FALSE

(* C2 - update_symbol_in_file returns True only if the text it writes       *)
(* differs from the text it read.                                           *)
C2_TrueOnlyIfTextDiffers ==
    Wrote => symbol_file.content # pre_file.content

C4_FalseLeavesFileUntouched ==
    /\ (calls >= 1 /\ faults = 0 /\ ret = FALSE) => symbol_file = pre_file
    /\ (calls >= 1 /\ (~pre_file.exists \/ Falsy(api_details) \/ TargetIdx = {}))
          => ret = FALSE

(* C5 - update_symbol_in_file never raises: an exception met while backing  *)
(* up, reading, transforming or writing is caught and the call returns      *)
(* False.                                                                   *)
C5_NeverRaises ==
    /\ raised = FALSE
    /\ exc # "none" => ret = FALSE

\* calls that met an exception of each origin
C5_Witness ==
    /\ calls = 2
    /\ prev_exc \in {"OSError in copy2", "UnicodeDecodeError", "OSError in write_text"}
    /\ exc \in {"re.error", "AttributeError", "UnicodeEncodeError"}
    /\ ret = FALSE /\ ~raised

(* C6 as stated - after every call that gets past the guard the backup      *)
(* holds the document as it was before that call.                           *)
C6_BackupHoldsPreState ==
    PastGuard => (backup_file.exists /\ backup_file.content = pre_file.content)

(* C6 as amended - after every call that gets past the guard and whose      *)
(* backup copy does not fail, the backup holds the document as it was       *)
(* before that call (one generation); and the document changes only in a    *)
(* call after whose copy the backup holds that pre-state.                   *)
C6_BackupDiscipline ==
    /\ (PastGuard /\ exc # "OSError in copy2")
          => (backup_file.exists /\ backup_file.content = pre_file.content)
    /\ (calls >= 1 /\ symbol_file # pre_file)
          => (backup_file.exists /\ backup_file.content = pre_file.content)

\* the second call rewrote a document that the first had already changed: the
\* backup holds the document between the calls, not the original
C6_Witness ==
    /\ calls = 2 /\ Wrote /\ prev_ret = TRUE
    /\ symbol_file # pre_file
    /\ pre_backup.exists /\ pre_backup # backup_file
    /\ backup_file.content = pre_file.content

(* C7 - one call rewrites at most one block, also when several top-level    *)
(* blocks carry the same LCSC value.                                        *)
C7_AtMostOneBlockRewritten ==
    Wrote => Cardinality(AlteredIdx) <= 1

(* C8 - the Value of the block is replaced only if a candidate was derived  *)
(* and the current Value is longer than 6 characters and made only of       *)
(* letters, digits, underscore, comma and hyphen.                           *)
C8_ValueGuard ==
    Wrote =>
        \A i \in TargetIdx :
            ValueOf(PostParts[i]) # ValueOf(PreParts[i]) =>
                /\ extract_component_value(api_details,
                       determine_component_type(api_details)).some
                /\ CharLenSum(ValueOf(PreParts[i])) > 6
                /\ PartNumberChars(ValueOf(PreParts[i]))

(* C9 as stated - ki_keywords is overwritten only when the property exists, *)
(* its value is exactly the id and brand or model is non-empty; the new     *)
(* value is id, brand, model joined by single spaces; no property is added. *)
C9_KeywordGuardExact ==
    Wrote =>
        \A i \in TargetIdx :
            /\ PropertyCount(PostParts[i], "ki_keywords")
                  = PropertyCount(PreParts[i], "ki_keywords")
            /\ KeywordsOf(PostParts[i]) # KeywordsOf(PreParts[i]) =>
                  /\ HasProperty(PreParts[i], "ki_keywords")
                  /\ KeywordsOf(PreParts[i]) = jlc_id
                  /\ (api_details.brandNameEn # <<>> \/ api_details.productModel # <<>>)
                  /\ KeywordsOf(PostParts[i]) = KeywordString(jlc_id, api_details)

(* C9 as amended - the same, the current value being the id once leading    *)
(* and trailing white space is removed.                                     *)
C9_KeywordGuard ==
    Wrote =>
        \A i \in TargetIdx :
            /\ PropertyCount(PostParts[i], "ki_keywords")
                  = PropertyCount(PreParts[i], "ki_keywords")
            /\ KeywordsOf(PostParts[i]) # KeywordsOf(PreParts[i]) =>
                  /\ HasProperty(PreParts[i], "ki_keywords")
                  /\ Strip(KeywordsOf(PreParts[i])) = jlc_id
                  /\ (api_details.brandNameEn # <<>> \/ api_details.productModel # <<>>)
                  /\ KeywordsOf(PostParts[i]) = KeywordString(jlc_id, api_details)

\* a bare id was extended, in a library that also holds a curated list
C9_Witness ==
    /\ Wrote
    /\ \E i \in TargetIdx :
          /\ KeywordsOf(PreParts[i]) = jlc_id
          /\ KeywordsOf(PostParts[i]) = KeywordString(jlc_id, api_details)
          /\ KeywordsOf(PostParts[i]) # jlc_id

(* C10 - with a non-empty productIntroEn the block ends up with exactly one *)
(* Description, holding the introduction without its trailing RoHS marker:  *)
(* replaced in place, or else inserted immediately after the end of the     *)
(* Datasheet property; with neither property nothing is inserted and the    *)
(* call returns False if nothing else changed.                              *)
C10_DescriptionRewrite ==
    (calls >= 1 /\ faults = 0 /\ exc = "none" /\ PastGuard
       /\ api_details.productIntroEn # <<>>) =>
        \A i \in TargetIdx :
            LET old  == PreParts[i]
                new  == IF i <= Len(PostParts) THEN PostParts[i] ELSE <<>>
                text == WithoutTrailingMarker(api_details.productIntroEn)
                ins  == desc_property(text)
                e    == DatasheetEnd(new)
            IN  /\ (HasProperty(old, "Description") \/ HasProperty(old, "Datasheet")) =>
                      /\ PropertyCount(new, "Description") = 1
                      /\ Group(new, PropertySearch(new, "Description", TRUE)) = text
                /\ (~HasProperty(old, "Description") /\ HasProperty(old, "Datasheet")) =>
                      SubSeq(new, e + 1, e + Len(ins)) = ins
                /\ (~HasProperty(old, "Description") /\ ~HasProperty(old, "Datasheet")) =>
                      /\ PropertyCount(new, "Description") = 0
                      /\ (ValueOf(new) = ValueOf(old) /\ KeywordsOf(new) = KeywordsOf(old))
                            => ret = FALSE

----------------------------------------------------------------------------
(* The classification and the value extraction applied to supplier records *)

IntroPool ==
    { NoText,
      <<"1", "0", "k", Ohm, SP, "Resistor">>,
      <<"x", SP, "1", ".", "5", "u", "F", SP, "2", "u", "F", SP, "Capacitor">>,
      <<"2", ".", "2", "u", "H", SP, "coil">>,
      <<"1", ".", "k", Ohm, SP, "4", "7", Ohm>>,
      <<"1", "0", "0", "n", "F", SP, "4", "7", "M", Ohm, SP, "1", "m", "H">>,
      <<"LED">> }

ModelPool ==
    { NoText,
      <<"L", "M", "7", "-", "T", "R">>,
      <<"C", "1", "2">>,
      <<"A", "B", ",", "X", "1", "_", "C", "9">>,
      <<"l", "m", "-", "t", "r">> }

CatPool == { NoText, <<"resistors">>, <<"Capacitor">>, <<"choke">>, <<"LED">>,
             <<"voltage regulator">> }

ParentPool == { NoText, <<"Inductor">>, <<"controlled">> }

\* None, {} and the mappings with string fields
ValuePool ==
    { DetailsNone, DetailsEmpty }
    \cup { Details(i, m, NoText, c, p) :
              i \in IntroPool, m \in ModelPool, c \in CatPool, p \in ParentPool }

CompTypes == {"resistor", "capacitor", "inductor", "active", "unknown", "diode"}

\* no call of update_symbol_in_file has been made, there is no library
UpdateIdle ==
    /\ symbol_file = MissingFile /\ backup_file = MissingFile
    /\ jlc_id = IdC1
    /\ ret = FALSE /\ exc = "none" /\ raised = FALSE
    /\ calls = 0 /\ faults = 0
    /\ pre_file = symbol_file /\ pre_backup = backup_file
    /\ prev_ret = FALSE /\ prev_exc = "none"

InitValue ==
    /\ api_details \in ValuePool
    /\ comp_type \in CompTypes
    /\ evaluated = {} /\ component_type = "unknown" /\ extracted = NoValue
    /\ UpdateIdle
    /\ ExtractIdle
    /\ SyncIdle
    /\ RestIdle

DetermineType ==
    /\ "determine_component_type" \notin evaluated
    /\ component_type' = determine_component_type(api_details)
    /\ evaluated' = evaluated \cup {"determine_component_type"}
    /\ UNCHANGED <<comp_type, extracted, update_vars, extract_vars, sync_vars, rest_vars>>

\* api_details.get of line 201 needs a mapping
ExtractValue ==
    /\ "extract_component_value" \notin evaluated
    /\ api_details.kind # "none"
    /\ extracted' = extract_component_value(api_details, comp_type)
    /\ evaluated' = evaluated \cup {"extract_component_value"}
    /\ UNCHANGED <<comp_type, component_type, update_vars, extract_vars, sync_vars, rest_vars>>

NextValue == DetermineType \/ ExtractValue

SpecValue == InitValue /\ [][NextValue]_vars

----------------------------------------------------------------------------
(* Vocabulary of the properties of the two functions *)

\* digits, optionally a decimal point and digits
IsNumber(w) ==
    /\ w # <<>>
    /\ \A i \in 1..Len(w) : w[i] \in Digits \cup {"."}
    /\ w[1] \in Digits /\ Last(w) \in Digits
    /\ Cardinality({i \in 1..Len(w) : w[i] = "."}) <= 1

\* a number, an optional multiplier, the unit
IsQuantity(w, mults, unit) ==
    /\ Len(w) >= 2 /\ Last(w) = unit
    /\ \/ IsNumber(Front(w))
       \/ Len(w) >= 3 /\ w[Len(w) - 1] \in mults /\ IsNumber(SubSeq(w, 1, Len(w) - 2))

\* the quantity that starts first in the text, <<>> when there is none
FirstQuantity(d, mults, unit) ==
    LET S == {x \in (1..Len(d)) \X (1..Len(d)) :
                 x[1] <= x[2] /\ IsQuantity(SubSeq(d, x[1], x[2]), mults, unit)}
        First(T) == CHOOSE x \in T : \A y \in T : x[1] <= y[1]
    IN  IF S = {} THEN <<>> ELSE SubSeq(d, First(S)[1], First(S)[2])

\* r is w with every u written as the micro sign
IsMicroRendering(w, r) ==
    /\ Len(r) = Len(w)
    /\ \A i \in 1..Len(w) : r[i] = (IF w[i] = "u" THEN Micro ELSE w[i])

\* a separator and one to four capitals or digits
IsPackagingSuffix(t) ==
    /\ Len(t) \in 2..5 /\ t[1] \in {",", "_", "-"}
    /\ \A i \in 2..Len(t) : t[i] \in Upper \cup Digits

\* an optional separator, C and digits
IsIdSuffix(t) ==
    \E k \in {1, 2} :
        /\ Len(t) > k /\ t[k] = "C"
        /\ k = 2 => t[1] \in {"_", "-"}
        /\ \A i \in (k + 1)..Len(t) : t[i] \in Digits

\* the text without its longest ending of the given kind
Without(t, Suffix(_)) ==
    LET K == {k \in 1..Len(t) : Suffix(SubSeq(t, k, Len(t)))}
    IN  IF K = {} THEN t ELSE SubSeq(t, 1, Least(K) - 1)

\* a keyword occurs in one of the three fields read, case ignored
Mentions(d, keyword) ==
    /\ ~Falsy(d)
    /\ \E f \in {d.catalogName, d.parentCatalogName, d.productIntroEn} :
          KeywordIn(keyword, LowerText(f))

(* C11 - extract_component_value returns, for resistor, the first           *)
(* resistance quantity of productIntroEn; for capacitor and inductor, the   *)
(* first capacitance / inductance quantity with u written as the micro      *)
(* sign; for active, productModel without the packaging and id suffixes;    *)
(* and in every other case productModel, or None when productModel is empty.*)
C11_ExtractValue ==
    "extract_component_value" \in evaluated =>
        LET d == api_details.productIntroEn
            m == api_details.productModel
            q == CASE comp_type = "resistor"  -> FirstQuantity(d, {"k", "M", "G"}, Ohm)
                   [] comp_type = "capacitor" -> FirstQuantity(d, {"p", "n", "u", "m"}, "F")
                   [] comp_type = "inductor"  -> FirstQuantity(d, {"n", "u", "m"}, "H")
                   [] OTHER -> <<>>
        IN  CASE comp_type = "resistor" /\ q # <<>> -> extracted = SomeValue(q)
              [] comp_type \in {"capacitor", "inductor"} /\ q # <<>> ->
                     extracted.some /\ IsMicroRendering(q, extracted.val)
              [] comp_type = "active" /\ m # <<>> ->
                     extracted = SomeValue(Without(Without(m, IsPackagingSuffix), IsIdSuffix))
              [] OTHER -> extracted = (IF m # <<>> THEN SomeValue(m) ELSE NoValue)

\* a capacitance was taken from a text that holds two, and its u rewritten
C11_Witness ==
    /\ "extract_component_value" \in evaluated
    /\ comp_type = "capacitor"
    /\ extracted = SomeValue(<<"1", ".", "5", Micro, "F">>)
    /\ api_details.productModel # <<>>

(* C12 - determine_component_type gives the passive type of the first       *)
(* keyword, in the order resistor, capacitor, inductor, coil, choke, that   *)
(* occurs in one of the three fields, also when an active keyword occurs;   *)
(* else active if an active keyword occurs; else unknown; and unknown for   *)
(* None and for the empty mapping.                                          *)
C12_OrderedKeywordMatch ==
    "determine_component_type" \in evaluated =>
        LET M(k)    == Mentions(api_details, k)
            passive == M("resistor") \/ M("capacitor") \/ M("inductor")
                          \/ M("coil") \/ M("choke")
            active  == \E i \in 1..Len(active_keywords) : M(active_keywords[i])
        IN  /\ M("resistor") => component_type = "resistor"
            /\ (~M("resistor") /\ M("capacitor")) => component_type = "capacitor"
            /\ (~M("resistor") /\ ~M("capacitor") /\ passive) => component_type = "inductor"
            /\ (~passive /\ active) => component_type = "active"
            /\ (~passive /\ ~active) => component_type = "unknown"

\* a record that names two passive kinds and an active one was classified
C12_Witness ==
    /\ "determine_component_type" \in evaluated
    /\ Mentions(api_details, "resistor") /\ Mentions(api_details, "capacitor")
    /\ Mentions(api_details, "led")
    /\ component_type = "resistor"

----------------------------------------------------------------------------
(* Libraries read by the extractions, written by the generator or by hand *)


\* a property line with other white space than one blank
SpacedProperty(pname, value, gap) ==
    <<NL, SP, SP, LProp>> \o gap \o <<Q, pname, Q>> \o gap \o <<Q>> \o value
        \o <<Q, SP, LPar, "id 0", RPar, RPar>>

\* the blocks a library may start with
FirstBlocks ==
    { \* as generated, with escapes in name and Value, and a unit
      SymbolOpen(NameSlash) \o Property("Value", <<"A", "{slash}", "B", "C", "D", "E", "F">>)
        \o Property("Datasheet", <<"u">>) \o Property("LCSC", IdC1)
        \o Property("Description", <<"o", "l", "d">>)
        \o SubSymbol(NameSlash \o <<"_", "0", "_", "1">>) \o SymbolClose,
      \* a second component, without Description
      SymbolOpen(<<"R", "5">>) \o Property("Value", <<"0", "8", "0", "5", "W", "8", "F">>)
        \o Property("LCSC", IdC2) \o SymbolClose,
      \* a top-level block with a unit-like name, the rest holding an underscore
      SymbolOpen(<<"A", "_", "B", "_", "1", "_", "1">>) \o Property("LCSC", IdC1)
        \o Property("Description", <<"o", "l", "d">>) \o SymbolClose,
      \* the LCSC property written with two blanks
      SymbolOpen(<<"U", "9">>) \o SpacedProperty("LCSC", IdC1, <<SP, SP>>) \o SymbolClose,
      \* the symbol and its LCSC property on one line
      <<NL, SP, LSym, SP, Q, "U", "6", Q, SP, LProp, SP, Q, "LCSC", Q, SP, Q>> \o IdC1
        \o <<Q, SP, LPar, "id 0", RPar, RPar>> \o SymbolClose }

\* the blocks that may follow
SecondBlocks ==
    { <<>>,
      SymbolOpen(<<"R", "5">>) \o Property("Value", <<"0", "8", "0", "5", "W", "8", "F">>)
        \o Property("LCSC", IdC2) \o SymbolClose,
      \* a second block with the id of the first
      SymbolOpen(<<"U", "8">>) \o Property("LCSC", IdC1)
        \o Property("Description", <<"n", "e", "w">>) \o SymbolClose,
      \* an empty Value and an empty Description
      SymbolOpen(<<"Q", "1">>) \o Property("Value", <<>>) \o Property("LCSC", IdC2)
        \o Property("Description", <<>>) \o SymbolClose,
      \* a unit-like name without any other underscore
      SymbolOpen(<<"F", "_", "1", "_", "1">>) \o Property("LCSC", IdC2)
        \o Property("Description", <<"o", "l", "d">>) \o SymbolClose,
      \* a unit-like name that holds a line break
      SymbolOpen(<<"A", NL, "B", "_", "1", "_", "1">>) \o Property("LCSC", IdC2)
        \o Property("Description", <<"o", "l", "d">>) \o SymbolClose,
      \* a block without LCSC property
      SymbolOpen(<<"T", "1">>) \o Property("Value", <<"T", "1">>) \o SymbolClose }

\* a header that holds an LCSC property outside any symbol
StrayHeader == LibHeader \o Property("LCSC", IdC2)

Libraries ==
    {LibHeader \o LibFooter}
    \cup {LibHeader \o a \o b \o LibFooter : a \in FirstBlocks, b \in SecondBlocks}
    \cup {StrayHeader \o a \o LibFooter : a \in FirstBlocks}

LibraryDetails ==
    { Details(<<"b", "u", "c", "k", SP, "RoHS">>, <<"L", "M", "7", "-", "T", "R">>,
              <<"T", "I">>, <<"voltage regulator">>, NoText),
      Details(<<"1", "0", "k", Ohm, SP, "Resistor">>, NoText, NoText, NoText, NoText) }

InitLibrary ==
    /\ symbol_file \in {MissingFile} \cup {FileOf(d) : d \in Libraries}
    /\ backup_file = MissingFile
    /\ jlc_id \in Ids
    /\ api_details \in LibraryDetails
    /\ ret = FALSE /\ exc = "none" /\ raised = FALSE
    /\ calls = 0 /\ faults = 0
    /\ pre_file = symbol_file /\ pre_backup = backup_file
    /\ prev_ret = FALSE /\ prev_exc = "none"
    /\ ValueIdle
    /\ ExtractIdle
    /\ SyncIdle
    /\ RestIdle

GetInstalled ==
    /\ "get_installed_components" \notin evaluated
    /\ \E r \in {get_installed_components(symbol_file)} :
          /\ installed' = (IF r.exc = "none" THEN r.val ELSE installed)
          /\ extract_exc' = r.exc
    /\ evaluated' = evaluated \cup {"get_installed_components"}
    /\ UNCHANGED <<part_numbers, details, comp_type, component_type, extracted, update_vars,
                   sync_vars, rest_vars>>

GetPartNumbers ==
    /\ "get_installed_components_with_part_numbers" \notin evaluated
    /\ \E r \in {get_installed_components_with_part_numbers(symbol_file)} :
          /\ part_numbers' = (IF r.exc = "none" THEN r.val ELSE part_numbers)
          /\ extract_exc' = r.exc
    /\ evaluated' = evaluated \cup {"get_installed_components_with_part_numbers"}
    /\ UNCHANGED <<installed, details, comp_type, component_type, extracted, update_vars,
                   sync_vars, rest_vars>>

GetDetails ==
    /\ "get_component_details_from_symbol" \notin evaluated
    /\ \E r \in {get_component_details_from_symbol(symbol_file)} :
          /\ details' = (IF r.exc = "none" THEN r.val ELSE details)
          /\ extract_exc' = r.exc
    /\ evaluated' = evaluated \cup {"get_component_details_from_symbol"}
    /\ UNCHANGED <<installed, part_numbers, comp_type, component_type, extracted, update_vars,
                   sync_vars, rest_vars>>

\* update_symbol_in_file on the library; what was extracted before is forgotten
Rewrite ==
    /\ Call("ok")
    /\ evaluated' = {}
    /\ installed' = {} /\ part_numbers' = EmptyMap /\ details' = EmptyMap
    /\ extract_exc' = "none"
    /\ UNCHANGED <<comp_type, component_type, extracted, sync_vars, rest_vars>>

NextLibrary == GetInstalled \/ GetPartNumbers \/ GetDetails \/ Rewrite

SpecLibrary == InitLibrary /\ [][NextLibrary]_vars

----------------------------------------------------------------------------
(* Vocabulary of the properties of the extractions *)

\* the library as the extractions find it, split into header and segments
Parts == ReSplit(symbol_file.content)

\* the three extractions have been applied to the library
Scanned(f) == f \in evaluated

\* neither a symbol nor a property in the file
HeaderOnly(file) ==
    file.exists /\ \A i \in 1..Len(file.content) : file.content[i] \notin {LSym, LProp}

NameOf(block) == Group(block, SymbolSearch(block))
LcscOf(block) == Group(block, PropertySearch(block, "LCSC", FALSE))
AnyValueOf(block, pname) == Group(block, PropertySearch(block, pname, TRUE))

\* a segment from which a record is built: a name that is no sub-symbol name
\* and an LCSC value
YieldsRecord(block) ==
    /\ SymbolSearch(block).ok
    /\ ~IsSubSymbol(NameOf(block))
    /\ PropertySearch(block, "LCSC", FALSE).ok

\* the name ends in _<digits>_<digits>
EndsInUnitSuffix(name) ==
    \E a, b \in 1..Len(name) :
        /\ a + 1 < b /\ b < Len(name)
        /\ name[a] = "_" /\ name[b] = "_"
        /\ \A i \in (a + 1)..(b - 1) : name[i] \in Digits
        /\ \A i \in (b + 1)..Len(name) : name[i] \in Digits

(* C13 - on a missing file, and on a library that holds only the header,    *)
(* each of the three extractions returns its empty result and raises        *)
(* nothing.                                                                 *)
C13_EmptyResults ==
    (~symbol_file.exists \/ HeaderOnly(symbol_file)) =>
        /\ extract_exc = "none"
        /\ Scanned("get_installed_components") => installed = {}
        /\ Scanned("get_installed_components_with_part_numbers") => DOMAIN part_numbers = {}
        /\ Scanned("get_component_details_from_symbol") => DOMAIN details = {}

\* the three extractions have run on a missing file
C13_Witness ==
    /\ ~symbol_file.exists
    /\ Scanned("get_installed_components")
    /\ Scanned("get_installed_components_with_part_numbers")
    /\ Scanned("get_component_details_from_symbol")

(* C14 - a segment of the split in which no symbol name is found gives no   *)
(* record, and in every document update_symbol_in_file writes it stands     *)
(* unchanged at its place.                                                  *)
C14_MalformedSegments ==
    /\ Scanned("get_component_details_from_symbol") =>
          \A k \in DOMAIN details :
              \E i \in 2..Len(Parts) : SymbolSearch(Parts[i]).ok /\ LcscOf(Parts[i]) = k
    /\ Wrote =>
          \A i \in 1..Len(PreParts) :
              ~SymbolSearch(PreParts[i]).ok =>
                  i <= Len(PostParts) /\ PostParts[i] = PreParts[i]

\* a library whose header holds a property of its own was rewritten and read
C14_Witness ==
    /\ Wrote /\ AlteredIdx # {}
    /\ Occurs(LProp, PreParts[1])
    /\ \E i \in 2..Len(PreParts) : PreParts[i] = <<SP>>
    /\ Scanned("get_component_details_from_symbol")
    /\ DOMAIN details = {IdC1}

\* r is w with every {slash} written as /
IsDecodingOf(r, w) ==
    /\ Len(r) = Len(w)
    /\ \A i \in 1..Len(w) : r[i] = (IF w[i] = "{slash}" THEN "/" ELSE w[i])

\* every symbol name of the library stands on one line
PlainNames ==
    \A i \in 2..Len(Parts) : SymbolSearch(Parts[i]).ok => ~Occurs(NL, NameOf(Parts[i]))

\* a non-sub block with an LCSC value
Carries(block) ==
    /\ SymbolSearch(block).ok
    /\ ~EndsInUnitSuffix(NameOf(block))
    /\ PropertySearch(block, "LCSC", FALSE).ok

\* no later non-sub block carries the same id
LastForItsId(i) ==
    \A j \in (i + 1)..Len(Parts) :
        ~(Carries(Parts[j]) /\ LcscOf(Parts[j]) = LcscOf(Parts[i]))

Lines == splitlines(symbol_file.content)

\* line l starts a symbol
StartsSymbol(l) == LiteralSymbolSearch(Lines[l]).ok

\* line l starts no symbol, holds an LCSC property and follows a symbol start
LcscLine(l) ==
    /\ ~StartsSymbol(l)
    /\ LiteralLcscSearch(Lines[l]).ok
    /\ \E n \in 1..(l - 1) : StartsSymbol(n)

IdOn(l) == Group(Lines[l], LiteralLcscSearch(Lines[l]))

\* the nearest symbol-start line before line l
NearestStart(l) ==
    CHOOSE n \in 1..(l - 1) :
        StartsSymbol(n) /\ \A m \in (n + 1)..(l - 1) : ~StartsSymbol(m)

NameOn(n) == Group(Lines[n], LiteralSymbolSearch(Lines[n]))

(* C17 as stated - every LCSC property line maps its id to the decoded name *)
(* of the nearest symbol-start line before it and to no other, and an LCSC  *)
(* line before any symbol-start line is not recorded.                       *)
C17_NearestPrecedingName ==
    Scanned("get_installed_components_with_part_numbers") =>
        /\ \A l \in 1..Len(Lines) :
              LcscLine(l) =>
                  /\ IdOn(l) \in DOMAIN part_numbers
                  /\ IsDecodingOf(part_numbers[IdOn(l)], NameOn(NearestStart(l)))
        /\ \A k \in DOMAIN part_numbers :
              \E l \in 1..Len(Lines) : LcscLine(l) /\ IdOn(l) = k

(* C17 as amended - the same for the last LCSC property line that holds the *)
(* id: an id met again on a later line maps to the name tracked there.      *)
C17_NameOfLastLine ==
    Scanned("get_installed_components_with_part_numbers") =>
        /\ \A l \in 1..Len(Lines) :
              (LcscLine(l) /\ \A m \in (l + 1)..Len(Lines) :
                                  ~(LcscLine(m) /\ IdOn(m) = IdOn(l))) =>
                  /\ IdOn(l) \in DOMAIN part_numbers
                  /\ IsDecodingOf(part_numbers[IdOn(l)], NameOn(NearestStart(l)))
        /\ \A k \in DOMAIN part_numbers :
              \E l \in 1..Len(Lines) : LcscLine(l) /\ IdOn(l) = k

\* two blocks with different ids, the first with an escape in its name, map
\* each to its own name
C17_Witness ==
    /\ Scanned("get_installed_components_with_part_numbers")
    /\ DOMAIN part_numbers = {IdC1, IdC2}
    /\ part_numbers[IdC1] = <<"U", "/", "7">>
    /\ part_numbers[IdC2] = <<"R", "5">>

(* C18 - every id that is a key of get_component_details_from_symbol or of  *)
(* get_installed_components_with_part_numbers is an element of              *)
(* get_installed_components, whatever block or spacing the LCSC property    *)
(* occurs in.                                                               *)
C18_InstalledIsSuperset ==
    Scanned("get_installed_components") =>
        /\ Scanned("get_component_details_from_symbol") => DOMAIN details \subseteq installed
        /\ Scanned("get_installed_components_with_part_numbers") =>
              DOMAIN part_numbers \subseteq installed

(* C16 - a block whose name ends in _<digits>_<digits> is never reported by *)
(* get_component_details_from_symbol and never rewritten by                 *)
(* update_symbol_in_file, also when it carries the LCSC value asked for.    *)
C16_SubBlocksExcluded ==
    /\ Scanned("get_component_details_from_symbol") =>
          \A i \in 2..Len(Parts) :
              (SymbolSearch(Parts[i]).ok /\ EndsInUnitSuffix(NameOf(Parts[i]))) =>
                  \A k \in DOMAIN details :
                      ~IsDecodingOf(details[k].part_number, NameOf(Parts[i]))
    /\ Wrote =>
          \A i \in 2..Len(PreParts) :
              (SymbolSearch(PreParts[i]).ok /\ EndsInUnitSuffix(NameOf(PreParts[i]))) =>
                  i <= Len(PostParts) /\ PostParts[i] = PreParts[i]

----------------------------------------------------------------------------
(* sync: the library is rebuilt from the manifest *)

MaxManifest == 2

\* what fetch_component_details returns: None, or the supplier's record
SyncDetails ==
    { DetailsNone,
      Details(<<"b", "u", "c", "k", SP, "RoHS">>, <<"L", "M", "7", "-", "T", "R">>,
              <<"T", "I">>, <<"voltage regulator">>, NoText),
      Details(<<"1", "0", "k", Ohm, SP, "Resistor">>, NoText, NoText, NoText, NoText),
      \* a record without any of the keys read
      Details(NoText, NoText, NoText, NoText, NoText) }

\* the manifests: lists of part numbers, a part possibly listed twice
Manifests ==
    UNION {[1..n -> Ids] : n \in 0..MaxManifest}

\* the libraries a sync may find, each with its backup
SyncLibraries ==
    { <<MissingFile, MissingFile>>,
      <<FileOf(EmptyLibrary), MissingFile>>,
      <<JLC2KiCadLib(FileOf(EmptyLibrary), IdC1), MissingFile>>,
      <<JLC2KiCadLib(FileOf(EmptyLibrary), IdC2), FileOf(EmptyLibrary)>>,
      <<JLC2KiCadLib(JLC2KiCadLib(FileOf(EmptyLibrary), IdC1), IdC2),
        JLC2KiCadLib(FileOf(EmptyLibrary), IdC1)>> }

InitSync ==
    /\ manifest \in Manifests
    /\ sync_pc = "start"
    /\ attempted = <<>> /\ success_count = 0 /\ fail_count = 0 /\ cleaned = FALSE
    /\ outcomes = <<>>
    /\ \E lib \in SyncLibraries : symbol_file = lib[1] /\ backup_file = lib[2]
    /\ jlc_id = IdC1
    /\ api_details = DetailsNone
    /\ ret = FALSE /\ exc = "none" /\ raised = FALSE
    /\ calls = 0 /\ faults = 0
    /\ pre_file = symbol_file /\ pre_backup = backup_file
    /\ prev_ret = FALSE /\ prev_exc = "none"
    /\ ValueIdle
    /\ ExtractIdle
    /\ RestIdle

\* cli.py, lines 249-276: nothing to do for an empty manifest; else the
\* library is removed and created anew
SyncBegin ==
    /\ sync_pc = "start"
    /\ IF manifest = <<>>
       THEN /\ sync_pc' = "done"
            /\ UNCHANGED <<symbol_file, backup_file, cleaned>>
       ELSE /\ sync_pc' = "loop"
            /\ symbol_file' = ensure_lib_structure(rmtree)
            /\ backup_file' = rmtree
            /\ cleaned' = TRUE
    /\ UNCHANGED <<manifest, attempted, success_count, fail_count, outcomes>>
    /\ UNCHANGED <<jlc_id, api_details, ret, exc, raised, calls, faults, pre_file,
                   pre_backup, prev_ret, prev_exc, value_vars, extract_vars, rest_vars>>

\* the part number of the iteration, and where the loop goes after it
part_number == manifest[Len(attempted) + 1]
AfterIteration == IF Len(attempted) + 1 = Len(manifest) THEN "summary" ELSE "loop"

\* lines 278-304: the generator succeeds, the symbol is updated when the
\* supplier's record was fetched
SyncComponent ==
    /\ sync_pc = "loop" /\ Len(attempted) < Len(manifest)
    /\ \E fetched \in SyncDetails :
          /\ api_details' = fetched
          /\ \E generated \in {JLC2KiCadLib(symbol_file, part_number)} :
                IF Falsy(fetched)
                THEN /\ symbol_file' = generated
                     /\ UNCHANGED <<backup_file, ret, exc, raised, calls, pre_file,
                                    pre_backup, prev_ret, prev_exc>>
                ELSE \E r \in {update_symbol_in_file(generated, backup_file, part_number,
                                                     fetched, "ok")} :
                         /\ symbol_file' = r.file
                         /\ backup_file' = r.backup
                         /\ ret' = r.ret /\ exc' = r.exc /\ raised' = r.raised
                         /\ calls' = calls + 1
                         /\ pre_file' = generated /\ pre_backup' = backup_file
                         /\ prev_ret' = ret /\ prev_exc' = exc
    /\ jlc_id' = part_number
    /\ attempted' = Append(attempted, part_number)
    /\ success_count' = success_count + 1
    /\ outcomes' = Append(outcomes, "ok")
    /\ sync_pc' = AfterIteration
    /\ UNCHANGED <<manifest, fail_count, cleaned, faults, value_vars, extract_vars, rest_vars>>

\* lines 306-309: the generator exits with a non-zero status
SyncGeneratorFails ==
    /\ sync_pc = "loop" /\ Len(attempted) < Len(manifest)
    /\ attempted' = Append(attempted, part_number)
    /\ fail_count' = fail_count + 1
    /\ outcomes' = Append(outcomes, "error")
    /\ sync_pc' = AfterIteration
    /\ UNCHANGED <<manifest, success_count, cleaned, update_vars, value_vars, extract_vars, rest_vars>>

\* lines 310-314: the generator is not installed; the loop is left
SyncGeneratorMissing ==
    /\ sync_pc = "loop" /\ Len(attempted) < Len(manifest)
    /\ attempted' = Append(attempted, part_number)
    /\ fail_count' = fail_count + 1
    /\ outcomes' = Append(outcomes, "missing")
    /\ sync_pc' = "summary"
    /\ UNCHANGED <<manifest, success_count, cleaned, update_vars, value_vars, extract_vars, rest_vars>>

\* lines 316-321: the tally is reported
SyncSummary ==
    /\ sync_pc = "summary"
    /\ sync_pc' = "done"
    /\ UNCHANGED <<manifest, attempted, success_count, fail_count, cleaned, outcomes,
                   update_vars, value_vars, extract_vars, rest_vars>>

NextSync ==
    SyncBegin \/ SyncComponent \/ SyncGeneratorFails \/ SyncGeneratorMissing \/ SyncSummary

SpecSync == InitSync /\ [][NextSync]_vars

\* the elements of a list
Entries(list) == {list[i] : i \in 1..Len(list)}

\* the ids the raw-text view finds in the library
InstalledNow == get_installed_components(symbol_file).val

(* C19 - when sync is done every manifest component has been attempted      *)
(* exactly once in manifest order, whatever generator failures occurred,    *)
(* and success_count + fail_count is the number of manifest components.     *)
C19_SyncContinues ==
    sync_pc = "done" =>
        /\ attempted = manifest
        /\ success_count + fail_count = Len(manifest)

(* C20 - when sync is done with no failed component the ids installed in    *)
(* the symbol library are exactly the manifest entries, the empty manifest  *)
(* included.                                                                *)
C20_CleanSync ==
    (sync_pc = "done" /\ fail_count = 0) => InstalledNow = Entries(manifest)

----------------------------------------------------------------------------
(* The manifest operations *)

MaxEdits == 2

\* the id C1 spelled with an escape
EscId == <<EscC, "1">>
IdC3  == <<"C", "3">>

ManifestIds == {IdC1, IdC2, EscId}

\* a line of the components array, with or without commentary
EntryLine(id, comment) ==
    <<SP, SP, SP, SP, Q>> \o id \o <<Q, Comma>>
      \o (IF comment = <<>> THEN <<>> ELSE <<SP, Hash, SP>> \o comment) \o <<NL>>

ArrayOpen    == <<KeyComponents, SP, Assign, SP, LBr, NL>>
ArrayClose   == <<RBr, NL, NL>>
ProjectTable ==
    <<TableProject, NL, "lib-dir", SP, Assign, SP, Q, "jlclib", Q, NL,
      "lib-name", SP, Assign, SP, Q, "JLC_Project", Q, NL>>

\* the manifests the operations may find
ManifestTexts ==
    { \* as save writes it
      ArrayOpen \o EntryLine(IdC1, <<>>) \o EntryLine(IdC2, <<>>) \o ArrayClose \o ProjectTable,
      ArrayOpen \o ArrayClose \o ProjectTable,
      \* with commentary added by hand
      ArrayOpen \o EntryLine(IdC1, <<"regulator">>) \o EntryLine(IdC2, <<>>)
        \o ArrayClose \o ProjectTable,
      ArrayOpen \o EntryLine(IdC3, <<"x">>) \o EntryLine(IdC2, <<"pull", SP, "up">>)
        \o ArrayClose \o ProjectTable \o <<TableOther, NL, "k", SP, Assign, SP, Q, "v", Q, NL>>,
      \* the array on one line
      <<KeyComponents, SP, Assign, SP, LBr, Q>> \o IdC1 \o <<Q, Comma, SP, Q>> \o IdC2
        \o <<Q, RBr, NL>>,
      \* an id listed twice
      ArrayOpen \o EntryLine(IdC1, <<>>) \o EntryLine(IdC1, <<>>) \o EntryLine(IdC2, <<>>)
        \o ArrayClose \o ProjectTable,
      \* an id spelled with an escape
      ArrayOpen \o EntryLine(IdC2, <<>>) \o EntryLine(EscId, <<>>) \o ArrayClose,
      \* the components as a table
      <<TableComponents, NL>> \o IdC1 \o <<SP, Assign, SP, Q, "regulator", Q, NL>>
        \o IdC2 \o <<SP, Assign, SP, Q, Q, NL>>,
      \* no components at all
      ProjectTable }

InitConfig ==
    /\ config_file \in {MissingFile} \cup {FileOf(t) : t \in ManifestTexts}
    /\ pre_config = config_file
    /\ cfg_op = "none" /\ cfg_id = <<>> /\ found = FALSE /\ cfg_exc = "none" /\ edits = 0
    /\ UpdateIdle
    /\ api_details = DetailsNone
    /\ ValueIdle
    /\ ExtractIdle
    /\ SyncIdle
    /\ TablesIdle
    /\ StructIdle
    /\ FindIdle
    /\ CmdIdle

AddComponent ==
    /\ edits < MaxEdits
    /\ \E id \in ManifestIds :
          /\ cfg_id' = id
          /\ \E r \in {add_component(config_file, id)} :
                config_file' = r.file /\ cfg_exc' = r.exc
    /\ cfg_op' = "add_component"
    /\ found' = FALSE
    /\ pre_config' = config_file
    /\ edits' = edits + 1
    /\ UNCHANGED <<update_vars, value_vars, extract_vars, sync_vars, table_vars, struct_vars, find_vars, cmd_vars>>

RemoveComponent ==
    /\ edits < MaxEdits
    /\ \E id \in ManifestIds :
          /\ cfg_id' = id
          /\ \E r \in {remove_component(config_file, id)} :
                config_file' = r.file /\ found' = r.found /\ cfg_exc' = r.exc
    /\ cfg_op' = "remove_component"
    /\ pre_config' = config_file
    /\ edits' = edits + 1
    /\ UNCHANGED <<update_vars, value_vars, extract_vars, sync_vars, table_vars, struct_vars, find_vars, cmd_vars>>

NextConfig == AddComponent \/ RemoveComponent

SpecConfig == InitConfig /\ [][NextConfig]_vars

\* the list before and after the last operation
ListBefore == get_components(pre_config).val
ListAfter  == get_components(config_file).val

NoDuplicate(list) == \A m, n \in 1..Len(list) : list[m] = list[n] => m = n

\* the list without x
Without_(list, x) == SelectSeq(list, LAMBDA y : y # x)

(* C22 - add_component of a listed id leaves the list unchanged, of a new   *)
(* id appends it at the end; and an operation on a list without duplicates  *)
(* leaves a list without duplicates.                                        *)
C22_ManifestUnique ==
    cfg_op # "none" =>
        /\ cfg_exc = "none" /\ get_components(config_file).exc = "none"
        /\ cfg_op = "add_component" =>
              ListAfter = (IF InList(ListBefore, cfg_id) THEN ListBefore
                           ELSE Append(ListBefore, cfg_id))
        /\ NoDuplicate(ListBefore) => NoDuplicate(ListAfter)

(* C23 - remove_component returns True exactly when the id was listed;      *)
(* after True the id is not listed and the other ids stand in their order;  *)
(* after False the list is unchanged and the file is not rewritten.         *)
C23_RemoveComponent ==
    cfg_op = "remove_component" =>
        /\ found <=> InList(ListBefore, cfg_id)
        /\ found => ~InList(ListAfter, cfg_id) /\ ListAfter = Without_(ListBefore, cfg_id)
        /\ ~found => ListAfter = ListBefore /\ config_file = pre_config

\* the commentary before and after the last operation
NotesBefore == get_components_with_descriptions(pre_config)
NotesAfter  == get_components_with_descriptions(config_file)

(* C30 - after add_component(x) or remove_component(x) the description of   *)
(* every other id is what it was, and the ids with a description are the    *)
(* ids of get_components().                                                 *)
C30_CommentarySurvives ==
    cfg_op # "none" =>
        /\ \A y \in DOMAIN NotesBefore \ {cfg_id} :
              y \in DOMAIN NotesAfter /\ NotesAfter[y] = NotesBefore[y]
        /\ DOMAIN NotesAfter = Entries(ListAfter)

----------------------------------------------------------------------------
(* Registration of the project library in the tables *)

MaxEnsures == 2

NameProject == <<"JLC_Project">>
\* a name that holds the name JLC_Project
NameOld     == <<"JLC_Project", "_old">>
NameParts   == <<"Parts">>

\* the tables a registration may find
Tables(open, path, descr) ==
    { GenerateTable(open, NameProject, <<"jlclib">>, path, descr),
      GenerateTable(open, NameOld, <<"jlclib">>, path, descr),
      GenerateTable(open, NameParts, <<"libs">>, path, descr),
      \* two entries
      AddToTable(GenerateTable(open, NameParts, <<"libs">>, path, descr), <<>>,
                 LibEntry(NameOld, <<"old">>, path, descr)).content,
      \* no entry
      <<open, NL, SP, SP, VersionOpen, RPar, NL, RPar, NL>>,
      \* no closing parenthesis
      <<open, NL>>,
      <<>> }

InitTables ==
    /\ sym_lib_table \in {MissingFile}
          \cup {FileOf(t) : t \in Tables(SymTableOpen, SymbolPath, SymbolDescr)}
    /\ fp_lib_table \in {MissingFile}
          \cup {FileOf(t) : t \in Tables(FpTableOpen, FootprintPath, FootprintDescr)}
    /\ pre_sym = sym_lib_table /\ pre_fp = fp_lib_table
    /\ lib_name \in {NameProject, NameParts}
    /\ lib_dir \in {<<"jlclib">>, <<"libs">>}
    /\ ensured = [sym |-> 0, fp |-> 0]
    /\ UpdateIdle
    /\ api_details = DetailsNone
    /\ ValueIdle
    /\ ExtractIdle
    /\ SyncIdle
    /\ ConfigIdle
    /\ StructIdle
    /\ FindIdle
    /\ CmdIdle

EnsureSymbolLibrary ==
    /\ ensured.sym < MaxEnsures
    /\ sym_lib_table' = ensure_symbol_library(sym_lib_table, lib_name, lib_dir)
    /\ pre_sym' = sym_lib_table
    /\ ensured' = [ensured EXCEPT !.sym = @ + 1]
    /\ UNCHANGED <<fp_lib_table, pre_fp, lib_name, lib_dir>>
    /\ UNCHANGED <<update_vars, value_vars, extract_vars, sync_vars, config_vars, struct_vars, find_vars, cmd_vars>>

EnsureFootprintLibrary ==
    /\ ensured.fp < MaxEnsures
    /\ fp_lib_table' = ensure_footprint_library(fp_lib_table, lib_name, lib_dir)
    /\ pre_fp' = fp_lib_table
    /\ ensured' = [ensured EXCEPT !.fp = @ + 1]
    /\ UNCHANGED <<sym_lib_table, pre_sym, lib_name, lib_dir>>
    /\ UNCHANGED <<update_vars, value_vars, extract_vars, sync_vars, config_vars, struct_vars, find_vars, cmd_vars>>

NextTables == EnsureSymbolLibrary \/ EnsureFootprintLibrary

SpecTables == InitTables /\ [][NextTables]_vars

\* where the lib entries of a table start
EntryStarts(table) == {p \in 1..Len(table.content) : table.content[p] = LibOpen}

\* the name of the entry that starts at p
EntryName(table, p) == Group(table.content, QuotedAt(table.content, p + 1, TRUE))

\* the entry that starts at p, up to its closing parenthesis
EntryAt(table, p) ==
    SubSeq(table.content, p, FirstPos(table.content, p, LAMBDA q : table.content[q] = RPar))

EntriesOf(table) == {EntryAt(table, p) : p \in EntryStarts(table)}

Registered(before, table, times) ==
    /\ Cardinality({p \in EntryStarts(table) : EntryName(table, p) = lib_name}) = 1
    /\ EntriesOf(before) \subseteq EntriesOf(table)
    /\ times >= 2 => table = before

(* C24 - after ensure_symbol_library, and after ensure_footprint_library,   *)
(* the table holds exactly one lib entry named lib_name and every entry it  *)
(* held before; a second call leaves the file as it is.                     *)
C24_LibraryRegistered ==
    /\ ensured.sym >= 1 => Registered(pre_sym, sym_lib_table, ensured.sym)
    /\ ensured.fp >= 1 => Registered(pre_fp, fp_lib_table, ensured.fp)

----------------------------------------------------------------------------
(* The library directory *)

MaxStructured == 2

PathKinds == {"missing", "dir", "file"}

\* a library file stands in a directory
InitStructure ==
    /\ tree \in [symbol : PathKinds, footprint : PathKinds, models : PathKinds]
    /\ symbol_file \in {MissingFile}
          \cup (IF tree.symbol = "dir" THEN {FileOf(d) : d \in Documents \cup {EmptyLibrary}}
                ELSE {})
    /\ pre_tree = tree /\ struct_exc = "none" /\ structured = 0
    /\ backup_file = MissingFile
    /\ jlc_id = IdC1 /\ api_details = DetailsNone
    /\ ret = FALSE /\ exc = "none" /\ raised = FALSE
    /\ calls = 0 /\ faults = 0
    /\ pre_file = symbol_file /\ pre_backup = backup_file
    /\ prev_ret = FALSE /\ prev_exc = "none"
    /\ ValueIdle
    /\ ExtractIdle
    /\ SyncIdle
    /\ ConfigIdle
    /\ TablesIdle
    /\ FindIdle
    /\ CmdIdle

\* project.py, lines 58-77
EnsureLibStructure ==
    /\ structured < MaxStructured
    /\ \E made \in {MakeDirs(tree)} :
          /\ tree' = made.tree
          /\ struct_exc' = made.exc
          /\ symbol_file' = (IF made.exc = "none" THEN ensure_lib_structure(symbol_file)
                             ELSE symbol_file)
    /\ pre_tree' = tree
    /\ pre_file' = symbol_file
    /\ structured' = structured + 1
    /\ UNCHANGED <<backup_file, jlc_id, api_details, ret, exc, raised, calls, faults,
                   pre_backup, prev_ret, prev_exc>>
    /\ UNCHANGED <<value_vars, extract_vars, sync_vars, config_vars, table_vars, find_vars, cmd_vars>>

NextStructure == EnsureLibStructure

SpecStructure == InitStructure /\ [][NextStructure]_vars

(* C25 - ensure_lib_structure creates the three directories and the empty   *)
(* symbol library only where they are missing, leaves an existing symbol    *)
(* library as it is, and a further call changes nothing.                    *)
C25_StructureIdempotent ==
    structured >= 1 =>
        /\ struct_exc = "none" =>
              /\ tree = [symbol |-> "dir", footprint |-> "dir", models |-> "dir"]
              /\ symbol_file.exists
        /\ \A d \in DOMAIN tree : pre_tree[d] # "missing" => tree[d] = pre_tree[d]
        /\ pre_file.exists => symbol_file = pre_file
        /\ (~pre_file.exists /\ symbol_file.exists) => symbol_file.content = EmptyLibrary
        /\ structured >= 2 => (tree = pre_tree /\ symbol_file = pre_file)

\* a library with components is found with its footprint directory missing:
\* the directory is made, the library is what it was
C25_Witness ==
    /\ structured = 1 /\ struct_exc = "none"
    /\ pre_tree.footprint = "missing" /\ tree.footprint = "dir"
    /\ Occurs(LProp, pre_file.content)
    /\ symbol_file = pre_file

----------------------------------------------------------------------------
(* The search for the project: find_kicad_project *)

MaxDepth == 2

MaxProjects == 2

DirNames == {"a", "b"}

UpDir == ".."

RECURSIVE PathsTo(_, _)
\* the sequences of at most depth components
PathsTo(components, depth) ==
    IF depth = 0 THEN {RootDir}
    ELSE LET shorter == PathsTo(components, depth - 1)
         IN  shorter \cup {Append(q, c) : q \in shorter, c \in components}

Directories == PathsTo(DirNames, MaxDepth)

\* a path as the caller may spell it
StartDirs == PathsTo(DirNames \cup {UpDir}, MaxDepth)

\* a parent that never leaves the directory
parent_Stays(path) == path

\* Path.parent of an absolute path: the root is its own parent
parent(path) ==
    IF path = RootDir THEN RootDir ELSE SubSeq(path, 1, Len(path) - 1)

RECURSIVE ResolveFrom(_, _, _)
ResolveFrom(path, i, at) ==
    IF i > Len(path) THEN at
    ELSE ResolveFrom(path, i + 1, IF path[i] = UpDir THEN parent(at) ELSE Append(at, path[i]))

\* Path.resolve(): the ".." components are taken out
resolve(path) == ResolveFrom(path, 1, RootDir)

\* project.py, lines 15-25: a .kicad_pro file is in the directory
is_valid(root_dir) == root_dir \in projects

InitFind ==
    /\ start_dir \in StartDirs
    /\ projects \in {ps \in SUBSET Directories : Cardinality(ps) <= MaxProjects}
    /\ current = resolve(start_dir)
    /\ find_pc = "loop"
    /\ find_result = None
    /\ UpdateIdle
    /\ api_details = DetailsNone
    /\ ValueIdle
    /\ ExtractIdle
    /\ SyncIdle
    /\ ConfigIdle
    /\ TablesIdle
    /\ StructIdle
    /\ CmdIdle

FindRest == <<update_vars, value_vars, extract_vars, sync_vars, config_vars, table_vars,
              struct_vars, cmd_vars>>

\* project.py, lines 97-100: the directory looked at is a project
LoopFound ==
    /\ find_pc = "loop"
    /\ current # parent(current)
    /\ is_valid(current)
    /\ find_result' = KiCadProject(current)
    /\ find_pc' = "done"
    /\ UNCHANGED <<start_dir, projects, current, FindRest>>

\* project.py, lines 97-101: it is not, the search goes one directory up
LoopUp ==
    /\ find_pc = "loop"
    /\ current # parent(current)
    /\ ~is_valid(current)
    /\ current' = parent(current)
    /\ UNCHANGED <<start_dir, projects, find_pc, find_result, FindRest>>

\* project.py, line 97: the loop ends at the directory that is its own parent
LoopExit ==
    /\ find_pc = "loop"
    /\ current = parent(current)
    /\ find_pc' = "root"
    /\ UNCHANGED <<start_dir, projects, current, find_result, FindRest>>

\* project.py, lines 103-107: the root directory is checked
RootCheck ==
    /\ find_pc = "root"
    /\ find_result' = (IF is_valid(current) THEN KiCadProject(current) ELSE None)
    /\ find_pc' = "done"
    /\ UNCHANGED <<start_dir, projects, current, FindRest>>

NextFind == LoopFound \/ LoopUp \/ LoopExit \/ RootCheck

\* the search is one call: it runs until it returns
SpecFind == InitFind /\ [][NextFind]_vars /\ WF_vars(NextFind)

\* the chain start, parent(start), ..., root
Chain(dir) == {SubSeq(dir, 1, n) : n \in 0..Len(dir)}

ProjectsOnChain == Chain(resolve(start_dir)) \cap projects

\* the project directory on the chain that is nearest to the start
Nearest == CHOOSE d \in ProjectsOnChain : \A e \in ProjectsOnChain : Len(e) <= Len(d)

(* C26 - find_kicad_project(start) terminates; it returns the project at    *)
(* the nearest directory on the chain start, parent(start), ..., root that  *)
(* holds a .kicad_pro file, and None exactly when no directory of the chain *)
(* holds one.                                                               *)
C26_FindTerminatesAtNearest ==
    /\ <>(find_pc = "done")
    /\ [](find_pc = "done" =>
            /\ find_result = None <=> ProjectsOnChain = {}
            /\ ProjectsOnChain # {} => find_result = KiCadProject(Nearest))

\* started two directories below a project that is not the root, with a
\* second project at the root: the nearer one is returned
C26_Witness ==
    /\ find_pc = "done"
    /\ Len(resolve(start_dir)) = 2
    /\ projects = {RootDir, SubSeq(resolve(start_dir), 1, 1)}
    /\ find_result = KiCadProject(SubSeq(resolve(start_dir), 1, 1))

----------------------------------------------------------------------------
(* C28 - Content fixpoint: the document after two consecutive undisturbed   *)
(* calls update_symbol_in_file(file, id, api_details) is the document after *)
(* the first, whatever the two calls return.                                *)
C28_ContentFixpoint ==
    (calls = 2 /\ faults = 0) => symbol_file = pre_file

----------------------------------------------------------------------------
(* The commands: add, remove and sync on one project *)

\* the table files a command may find: none, or the two as they are generated
CommandTables ==
    { <<MissingFile, MissingFile>>,
      <<FileOf(generate_sym_lib_table(NameProject, <<"jlclib">>)),
        FileOf(generate_fp_lib_table(NameProject, <<"jlclib">>))>> }

InitAddRemove ==
    /\ command \in {"add", "remove"}
    /\ cmd_pc = "start"
    /\ cmd_arg \in Ids
    /\ exit_status = -1
    /\ config_file \in {MissingFile} \cup {FileOf(t) : t \in ManifestTexts}
    /\ pre_config = config_file
    /\ cfg_op = "none" /\ cfg_id = <<>> /\ found = FALSE /\ cfg_exc = "none" /\ edits = 0
    /\ \E lib \in SyncLibraries : symbol_file = lib[1] /\ backup_file = lib[2]
    /\ lib_path \in (IF symbol_file.exists THEN {TRUE} ELSE BOOLEAN)
    /\ lib_before = symbol_file
    /\ \E t \in CommandTables : sym_lib_table = t[1] /\ fp_lib_table = t[2]
    /\ pre_sym = sym_lib_table /\ pre_fp = fp_lib_table
    /\ lib_name = <<"JLC_Project">> /\ lib_dir = <<"jlclib">>
    /\ ensured = [sym |-> 0, fp |-> 0]
    /\ jlc_id = IdC1
    /\ api_details = DetailsNone
    /\ ret = FALSE /\ exc = "none" /\ raised = FALSE
    /\ calls = 0 /\ faults = 0
    /\ pre_file = symbol_file /\ pre_backup = backup_file
    /\ prev_ret = FALSE /\ prev_exc = "none"
    /\ ValueIdle
    /\ ExtractIdle
    /\ SyncIdle
    /\ StructIdle
    /\ FindIdle

InitCommands == InitAddRemove \/ InitSync

CmdRest == <<value_vars, extract_vars, struct_vars, find_vars>>

\* cli.py, lines 42-61: add ends with status 1 when there is no manifest (and
\* with a traceback when it cannot be parsed); the library structure is set
\* up when the directory is missing
AddCheck ==
    /\ command = "add" /\ cmd_pc = "start"
    /\ IF ~config_file.exists \/ get_lib_dir(config_file).exc # "none"
       THEN /\ exit_status' = 1 /\ cmd_pc' = "done"
            /\ UNCHANGED <<symbol_file, lib_path>>
       ELSE /\ exit_status' = exit_status /\ cmd_pc' = "generate"
            /\ symbol_file' = (IF lib_path THEN symbol_file
                               ELSE ensure_lib_structure(symbol_file))
            /\ lib_path' = TRUE
    /\ UNCHANGED <<command, cmd_arg, lib_before>>
    /\ UNCHANGED <<backup_file, jlc_id, api_details, ret, exc, raised, calls, faults,
                   pre_file, pre_backup, prev_ret, prev_exc>>
    /\ UNCHANGED <<sync_vars, config_vars, table_vars, CmdRest>>

\* the try block of add with the generator ending as outcome
AddTry(outcome) ==
    /\ \E fetched \in SyncDetails, io \in IoOutcomes :
          /\ io # "ok" => (faults < MaxFaults /\ outcome = "ok" /\ ~Falsy(fetched))
          /\ outcome # "ok" => fetched = DetailsNone
          /\ \E r \in {add_try(symbol_file, backup_file, config_file, cmd_arg, outcome,
                               fetched, io)} :
                /\ symbol_file' = r.file /\ backup_file' = r.backup
                /\ config_file' = r.config
                /\ exit_status' = r.exit
                /\ raised' = r.raised
                /\ IF r.called
                   THEN /\ ret' = r.ret /\ exc' = r.exc /\ calls' = calls + 1
                        /\ jlc_id' = cmd_arg
                   ELSE UNCHANGED <<ret, exc, calls, jlc_id>>
          /\ api_details' = fetched
          /\ faults' = IF io = "ok" THEN faults ELSE faults + 1
    /\ outcomes' = Append(outcomes, outcome)
    /\ attempted' = Append(attempted, cmd_arg)
    /\ cmd_pc' = "done"
    /\ UNCHANGED <<command, cmd_arg, lib_path, lib_before>>
    /\ UNCHANGED <<pre_file, pre_backup, prev_ret, prev_exc>>
    /\ UNCHANGED <<manifest, sync_pc, success_count, fail_count, cleaned>>
    /\ UNCHANGED <<pre_config, cfg_op, cfg_id, found, cfg_exc, edits>>
    /\ UNCHANGED <<table_vars, CmdRest>>

\* lines 68-99 and 109-110
AddGenerated == command = "add" /\ cmd_pc = "generate" /\ AddTry("ok")

\* lines 101-103: the generator exits with a non-zero status
AddGeneratorFails == command = "add" /\ cmd_pc = "generate" /\ AddTry("error")

\* lines 104-107: the generator is not installed
AddGeneratorMissing == command = "add" /\ cmd_pc = "generate" /\ AddTry("missing")

NextAdd == AddCheck \/ AddGenerated \/ AddGeneratorFails \/ AddGeneratorMissing

\* lines 116-133: remove ends with status 1 when there is no manifest or the
\* id is not in it; else the manifest is written without the id
RemoveCheck ==
    /\ command = "remove" /\ cmd_pc = "start"
    /\ IF ~config_file.exists
       THEN /\ exit_status' = 1 /\ cmd_pc' = "done"
            /\ UNCHANGED <<config_file, found, cfg_exc>>
       ELSE \E r \in {remove_component(config_file, cmd_arg)} :
               /\ config_file' = r.file /\ found' = r.found /\ cfg_exc' = r.exc
               /\ IF r.found
                  THEN exit_status' = exit_status /\ cmd_pc' = "rebuild"
                  ELSE exit_status' = 1 /\ cmd_pc' = "done"
    /\ UNCHANGED <<command, cmd_arg, lib_path, lib_before>>
    /\ UNCHANGED <<pre_config, cfg_op, cfg_id, edits>>
    /\ UNCHANGED <<update_vars, sync_vars, table_vars, CmdRest>>

\* lines 137-154: the components that remain are read, the library directory
\* is removed and created anew, the tables are seen to
RemoveClean ==
    /\ command = "remove" /\ cmd_pc = "rebuild"
    /\ manifest' = get_components(config_file).val
    /\ symbol_file' = ensure_lib_structure(rmtree)
    /\ backup_file' = rmtree
    /\ lib_path' = TRUE
    /\ cleaned' = TRUE
    /\ lib_name' = get_lib_name(config_file).val
    /\ lib_dir' = get_lib_dir(config_file).val
    /\ sym_lib_table' = ensure_symbol_library(sym_lib_table, lib_name', lib_dir')
    /\ fp_lib_table' = ensure_footprint_library(fp_lib_table, lib_name', lib_dir')
    /\ pre_sym' = sym_lib_table /\ pre_fp' = fp_lib_table
    /\ ensured' = [sym |-> ensured.sym + 1, fp |-> ensured.fp + 1]
    /\ cmd_pc' = "loop"
    /\ UNCHANGED <<command, cmd_arg, exit_status, lib_before>>
    /\ UNCHANGED <<jlc_id, api_details, ret, exc, raised, calls, faults, pre_file,
                   pre_backup, prev_ret, prev_exc>>
    /\ UNCHANGED <<sync_pc, attempted, success_count, fail_count, outcomes>>
    /\ UNCHANGED <<config_vars, CmdRest>>

\* the component the rebuild of remove has come to
comp == manifest[Len(attempted) + 1]

\* lines 157-177: the generator succeeds for a remaining component, the symbol
\* is updated when the supplier's record was fetched
RebuildComponent ==
    /\ command = "remove" /\ cmd_pc = "loop" /\ Len(attempted) < Len(manifest)
    /\ \E fetched \in SyncDetails :
          /\ api_details' = fetched
          /\ \E r \in {Enrich(JLC2KiCadLib(symbol_file, comp), backup_file, comp,
                              fetched, "ok")} :
                /\ symbol_file' = r.file /\ backup_file' = r.backup
                /\ raised' = r.raised
                /\ IF Falsy(fetched) THEN UNCHANGED <<ret, exc, calls>>
                   ELSE ret' = r.ret /\ exc' = r.exc /\ calls' = calls + 1
    /\ jlc_id' = comp
    /\ attempted' = Append(attempted, comp)
    /\ outcomes' = Append(outcomes, "ok")
    /\ UNCHANGED <<faults, pre_file, pre_backup, prev_ret, prev_exc>>
    /\ UNCHANGED <<manifest, sync_pc, success_count, fail_count, cleaned>>
    /\ UNCHANGED <<cmd_vars, config_vars, table_vars, CmdRest>>

\* lines 179-183: a generator that fails or is missing is passed over
RebuildFails ==
    /\ command = "remove" /\ cmd_pc = "loop" /\ Len(attempted) < Len(manifest)
    /\ attempted' = Append(attempted, comp)
    /\ \E outcome \in {"error", "missing"} : outcomes' = Append(outcomes, outcome)
    /\ UNCHANGED <<manifest, sync_pc, success_count, fail_count, cleaned>>
    /\ UNCHANGED <<update_vars, cmd_vars, config_vars, table_vars, CmdRest>>

\* line 185: the removal is reported
RemoveDone ==
    /\ command = "remove" /\ cmd_pc = "loop" /\ Len(attempted) = Len(manifest)
    /\ exit_status' = 0 /\ cmd_pc' = "done"
    /\ UNCHANGED <<command, cmd_arg, lib_path, lib_before>>
    /\ UNCHANGED <<update_vars, sync_vars, config_vars, table_vars, CmdRest>>

NextRemove == RemoveCheck \/ RemoveClean \/ RebuildComponent \/ RebuildFails \/ RemoveDone

NextCommands == NextAdd \/ NextRemove \/ NextSync

SpecCommands == InitCommands /\ [][NextCommands]_vars

----------------------------------------------------------------------------
(* C29 - add records the id only after the generator has run successfully:  *)
(* when the generator fails or is missing add ends with a failure status,   *)
(* the manifest is unchanged and update_symbol_in_file is not called; when  *)
(* there is no manifest file add fails before it runs the generator.        *)
C29_AddAfterGenerator ==
    command = "add" =>
        /\ config_file # pre_config => outcomes = <<"ok">>
        /\ (cmd_pc = "done" /\ outcomes # <<>> /\ Last(outcomes) # "ok") =>
              /\ exit_status = 1
              /\ config_file = pre_config
              /\ calls = 0
        /\ ~pre_config.exists =>
              /\ outcomes = <<>>
              /\ cmd_pc = "done" => exit_status = 1

\* the generator ended with an error for a part that an initialised project
\* does not list: status 1, and the manifest is what it was
C29_Witness ==
    /\ command = "add" /\ cmd_pc = "done"
    /\ outcomes = <<"error">>
    /\ pre_config.exists /\ ~InList(ListBefore, cmd_arg)
    /\ exit_status = 1 /\ config_file = pre_config /\ calls = 0

\* the generator runs that ended well
Generated == Cardinality({n \in 1..Len(outcomes) : outcomes[n] = "ok"})

\* the last generator run ended well and the enrichment after it gave
\* nothing: no record was fetched, or update_symbol_in_file returned False
EnrichmentFailed ==
    /\ outcomes # <<>> /\ Last(outcomes) = "ok"
    /\ Falsy(api_details) \/ (jlc_id = Last(attempted) /\ calls >= 1 /\ ret = FALSE)

(* C21 - when the fetch returns nothing or update_symbol_in_file returns    *)
(* False for a component whose generator run succeeded, add still records   *)
(* the id and ends with status 0, and sync still counts the component as a  *)
(* success and goes on to the next component.                               *)
C21_EnrichmentNeverFails ==
    EnrichmentFailed =>
        /\ (command = "add" /\ cmd_pc = "done") =>
              /\ exit_status = 0
              /\ InList(ListAfter, cmd_arg)
        /\ sync_pc \in {"loop", "summary", "done"} =>
              /\ success_count = Generated
              /\ Len(attempted) < Len(manifest) => sync_pc = "loop"

\* add ended after update_symbol_in_file returned False on a disturbed write
\* for a part the manifest did not list
C21_Witness ==
    /\ command = "add" /\ cmd_pc = "done"
    /\ outcomes = <<"ok">>
    /\ ~Falsy(api_details) /\ calls = 1 /\ ret = FALSE /\ exc # "none"
    /\ ~InList(ListBefore, cmd_arg)
    /\ exit_status = 0 /\ InList(ListAfter, cmd_arg)

\* the library directory is as remove found it
LibraryUntouched ==
    /\ symbol_file = lib_before /\ backup_file = pre_backup
    /\ sym_lib_table = pre_sym /\ fp_lib_table = pre_fp
    /\ ~cleaned

(* C27 - remove of an id that is not in the manifest ends with an error and *)
(* modifies neither the manifest nor the library; otherwise the id is taken *)
(* out of the manifest before the library is touched, the library is built  *)
(* anew from the remaining entries only, and after the command the id is    *)
(* neither listed nor installed and the other entries are what they were,   *)
(* whatever regeneration failed.                                            *)
C27_Remove ==
    command = "remove" =>
        /\ (cmd_pc = "done" /\ ~InList(ListBefore, cmd_arg)) =>
              /\ exit_status = 1
              /\ config_file = pre_config
              /\ LibraryUntouched
        /\ (cmd_pc = "done" /\ InList(ListBefore, cmd_arg)) => exit_status = 0
        /\ ~LibraryUntouched =>
              /\ ~InList(ListAfter, cmd_arg)
              /\ ListAfter = Without_(ListBefore, cmd_arg)
              /\ InstalledNow \subseteq Entries(ListAfter)
        /\ (cmd_pc = "done" /\ exit_status = 0) =>
              /\ ~InList(ListAfter, cmd_arg)
              /\ cmd_arg \notin InstalledNow
              /\ ListAfter = Without_(ListBefore, cmd_arg)

====
